---- MODULE Spec2Model ----
(***************************************************************************)
(* Donachain: the three contracts DonationManager (campaign ledger),       *)
(* DonachainNFT (certificate registry) and Voting (ballot registry).       *)
(*                                                                         *)
(* Every public function is one action.  A transaction is atomic, with one *)
(* exception that the code itself creates: DonachainNFT.mintCertificate    *)
(* calls _safeMint, which hands control to the donor when the donor is a   *)
(* contract (the ERC-721 receipt callback), and withdrawWithLog hands      *)
(* control to the recipient (transfer).  While such a callback runs the    *)
(* model is in a state with a non-empty frame: the account in control may  *)
(* make nested calls, and the callback ends by returning (the operation    *)
(* completes) or by reverting (the whole transaction is rolled back to the *)
(* snapshot taken when it began).                                          *)
(*                                                                         *)
(* Amounts are counted in units of 0.005 ether, so that the thresholds of  *)
(* the code (0.01, 0.05 and 0.1 ether) are the integers 2, 10 and 20.      *)
(***************************************************************************)
EXTENDS Integers, Sequences, FiniteSets, TLC

\* ------------------------------------------------------------------ bounds
MaxCampaigns == 2
MaxDonations == 2
MaxExpenses  == 2
\* the withdrawals followed where donations, mints and time are followed too
LedgerExpenses == 1
MaxTokens    == 2
MaxTime      == 2
\* the donations of a history that a leaderboard is computed from
MaxHistory   == 3

\* ------------------------------------------------------- program constants
MIN_DONATION_FOR_NFT == 2
SILVER_THRESHOLD     == 10
GOLD_THRESHOLD       == 20
SPECIAL_CHANCE       == 500
MAX_TITLE_LENGTH     == 100

\* ---------------------------------------------------------------- accounts
NULL == "0x0"
DM   == "DonationManager"
NFT  == "DonachainNFT"
\* admin deploys the three contracts; alice is an externally owned account;
\* mallory is a contract account, so a certificate minted to it triggers its
\* onERC721Received and a transfer to it runs its receive function.
Accounts  == {"admin", "alice", "mallory"}
Contracts == {"mallory"}
hasCode(a) == a \in Contracts

CampaignIdInputs == 0 .. MaxCampaigns
TokenIdInputs    == 1 .. MaxTokens
AmountInputs     == {0, 1, MIN_DONATION_FOR_NFT}
\* the draws of _generateRandom that the tier rule distinguishes
RandomDraws      == {SPECIAL_CHANCE}
\* the draws at the ends of the two ranges of the tier rule, [0, 500) and
\* [500, 10000), and the amounts around its two thresholds
TierDraws        == {0, SPECIAL_CHANCE - 1, SPECIAL_CHANCE, 9999}
TierAmounts      == {SILVER_THRESHOLD - 1, SILVER_THRESHOLD, GOLD_THRESHOLD}

VARIABLES
    now,      \* block.timestamp
    dm,       \* storage and ether balance of DonationManager
    nft,      \* storage of DonachainNFT
    voting,   \* storage of Voting
    frame     \* the suspended operation whose callback is running, or NoFrame

vars == <<now, dm, nft, voting, frame>>


\* ------------------------------------------------------------------ helpers
RECURSIVE SumAmounts(_)
\* the sum of the amount fields of a sequence of Donation or Expense records
SumAmounts(s) == IF s = <<>> THEN 0 ELSE Head(s).amount + SumAmounts(Tail(s))

\* Solidity's zero value of each struct: what a mapping returns for an unset key
EmptyCampaign ==
    [id |-> 0, title |-> "", description |-> "", imageCID |-> "", targetAmount |-> 0,
     totalRaised |-> 0, isActive |-> FALSE, createdAt |-> 0, deadline |-> 0,
     creator |-> NULL]

EmptyDetail ==
    [donor |-> NULL, amount |-> 0, campaignId |-> 0, campaignTitle |-> "",
     timestamp |-> 0, txHash |-> 0, tier |-> "Bronze"]

\* no callback is running
NoFrame ==
    [op |-> "none", actor |-> NULL, caller |-> NULL, args |-> <<>>, tokenId |-> 0,
     detail |-> EmptyDetail, donationIndex |-> 0, snap |-> <<>>]

\* blockhash(block.number - 1): one value per block, here the block's time
blockhash(t) == t

\* ------------------------------------------------------------ construction
DMInit ==
    [owner |-> "admin", nftContract |-> NULL,
     nextCampaignId |-> 1, nextExpenseId |-> 1,
     totalDonationsReceived |-> 0, totalExpensesLogged |-> 0,
     campaigns |-> [c \in 0 .. MaxCampaigns |-> EmptyCampaign],
     campaignIds |-> <<>>,
     allDonations |-> <<>>,
     donorDonations |-> [a \in Accounts |-> <<>>],
     campaignDonations |-> [c \in 0 .. MaxCampaigns |-> <<>>],
     allExpenses |-> <<>>,
     donorTotalAmount |-> [a \in Accounts |-> 0],
     uniqueDonors |-> <<>>,
     hasDonated |-> [a \in Accounts |-> FALSE],
     balance |-> 0,
     entered |-> FALSE]

NFTInit ==
    [owner |-> "admin", donationManager |-> NULL,
     nextTokenId |-> 1, randomNonce |-> 0,
     owners |-> [t \in TokenIdInputs |-> NULL],
     donationDetails |-> [t \in TokenIdInputs |-> EmptyDetail],
     donorTokens |-> [a \in Accounts |-> <<>>]]

VotingInit ==
    [owner |-> "admin", nftContract |-> NFT,
     campaignVotes |-> [c \in CampaignIdInputs |-> 0],
     tokenUsed |-> [t \in TokenIdInputs |-> FALSE],
     voted |-> <<>>,          \* the Voted events emitted, in order
     entered |-> FALSE]

Init ==
    /\ now = 0
    /\ dm = DMInit
    /\ nft = NFTInit
    /\ voting = VotingInit
    /\ frame = NoFrame


\* ------------------------------------------------------------ call context
\* A transaction starts only when no callback is running.  While the receipt
\* callback of a mint runs, the donor contract (frame.actor) makes the calls.
AnyCaller(caller) ==
    \/ frame.op = "none"
    \/ frame.op \in {"donate", "mint"} /\ caller = frame.actor

\* While the transfer of withdrawWithLog runs the recipient's receive function
\* it has the 2300 gas stipend of transfer: enough to call the ledger without
\* value and be turned away, too little to send value or to reach the other
\* contracts.
StipendCaller(caller) == frame.op = "withdraw" /\ caller = frame.actor

\* the state a transaction is rolled back to
Snapshot == [dm |-> dm, nft |-> nft, voting |-> voting]

\* A call that fails reverts: no state of any contract changes.  The kind of
\* failure is what the Check operator of the function returns.
Revert(op, caller, args, res) == UNCHANGED vars

\* ------------------------------------------------------------ DonachainNFT
\* determineTier with the amount checked before the draw
determineTierAmountFirst(amount, random) ==
    IF amount >= GOLD_THRESHOLD THEN "Gold"
    ELSE IF amount >= SILVER_THRESHOLD THEN "Silver"
    ELSE IF random < SPECIAL_CHANCE THEN "Special"
    ELSE "Bronze"

\* lines 218-238; random is the draw of _generateRandom in 0 .. 9999
determineTier(amount, random) ==
    IF random < SPECIAL_CHANCE THEN "Special"
    ELSE IF amount >= GOLD_THRESHOLD THEN "Gold"
    ELSE IF amount >= SILVER_THRESHOLD THEN "Silver"
    ELSE "Bronze"

\* MintStart without the increment of the nonce of line 253
MintStartNoNonce(n, donor) ==
    [n EXCEPT !.nextTokenId = @ + 1,
              !.owners[n.nextTokenId] = donor]

\* MintStart with line 176 reading _nextTokenId without incrementing it
MintStartNoIncrement(n, donor) ==
    [n EXCEPT !.randomNonce = @ + 1,
              !.owners[n.nextTokenId] = donor]

\* mintCertificate up to and including _mint inside _safeMint (lines 176-182):
\* the token id is taken, the nonce is incremented by the draw, and the token
\* gets its owner.  The receipt callback, if any, runs after this.
MintStart(n, donor) ==
    [n EXCEPT !.nextTokenId = @ + 1,
              !.randomNonce = @ + 1,
              !.owners[n.nextTokenId] = donor]

\* mintCertificate after _safeMint has returned (lines 184-196)
MintFinish(n, tokenId, detail) ==
    [n EXCEPT !.donationDetails[tokenId] = detail,
              !.donorTokens[detail.donor] = Append(@, tokenId)]

\* MintDetail without the campaign id of line 188
MintDetailNoCampaign(donor, amount, campaignId, campaignTitle, txHash, random) ==
    [donor |-> donor, amount |-> amount, campaignId |-> 0,
     campaignTitle |-> campaignTitle, timestamp |-> now, txHash |-> txHash,
     tier |-> determineTier(amount, random)]

MintDetail(donor, amount, campaignId, campaignTitle, txHash, random) ==
    [donor |-> donor, amount |-> amount, campaignId |-> campaignId,
     campaignTitle |-> campaignTitle, timestamp |-> now, txHash |-> txHash,
     tier |-> determineTier(amount, random)]

\* MintCheck with the modifier of lines 113-119 letting the owner in as well
MintCheckOwner(sender, donor) ==
    IF sender # nft.donationManager /\ sender # nft.owner THEN "Unauthorized"
    ELSE IF donor = NULL THEN "InvalidInput"
    ELSE "ok"

\* onlyDonationManager (lines 113-119), then _mint's receiver check
MintCheck(sender, donor) ==
    IF sender # nft.donationManager THEN "Unauthorized"
    ELSE IF donor = NULL THEN "InvalidInput"
    ELSE "ok"

\* SetDonationManagerCheck without the requirement of line 146
SetDonationManagerCheckAllowsNull(caller, addr) ==
    IF caller # nft.owner THEN "Unauthorized"
    ELSE "ok"

\* lines 145-149
SetDonationManagerCheck(caller, addr) ==
    IF caller # nft.owner THEN "Unauthorized"
    ELSE IF addr = NULL THEN "InvalidInput"
    ELSE "ok"

setDonationManager(caller, addr) ==
    /\ AnyCaller(caller)
    /\ LET res == SetDonationManagerCheck(caller, addr) IN
       IF res = "ok"
       THEN /\ nft' = [nft EXCEPT !.donationManager = addr]
            /\ UNCHANGED <<now, dm, voting, frame>>
       ELSE Revert("setDonationManager", caller, <<addr>>, res)

\* ERC721.transferFrom, inherited by DonachainNFT; the caller moves its own token
TransferCheck(caller, to, tokenId) ==
    IF to = NULL THEN "InvalidInput"
    ELSE IF nft.owners[tokenId] = NULL THEN "NotFound"
    ELSE IF nft.owners[tokenId] # caller THEN "NotOwner"
    ELSE "ok"

\* transferFrom also recording the new owner as the certificate's donor
transferFromRewritesDonor(caller, to, tokenId) ==
    /\ AnyCaller(caller)
    /\ LET res == TransferCheck(caller, to, tokenId) IN
       IF res = "ok"
       THEN /\ nft' = [nft EXCEPT !.owners[tokenId] = to,
                                  !.donationDetails[tokenId].donor = to]
            /\ UNCHANGED <<now, dm, voting, frame>>
       ELSE Revert("transferFrom", caller, <<to, tokenId>>, res)

\* transferFrom also listing the certificate under its new owner
transferFromMovesListing(caller, to, tokenId) ==
    /\ AnyCaller(caller)
    /\ LET res == TransferCheck(caller, to, tokenId) IN
       IF res = "ok"
       THEN /\ nft' = [nft EXCEPT !.owners[tokenId] = to,
                                  !.donorTokens[to] = Append(@, tokenId)]
            /\ UNCHANGED <<now, dm, voting, frame>>
       ELSE Revert("transferFrom", caller, <<to, tokenId>>, res)

transferFrom(caller, to, tokenId) ==
    /\ AnyCaller(caller)
    /\ LET res == TransferCheck(caller, to, tokenId) IN
       IF res = "ok"
       THEN /\ nft' = [nft EXCEPT !.owners[tokenId] = to]
            /\ UNCHANGED <<now, dm, voting, frame>>
       ELSE Revert("transferFrom", caller, <<to, tokenId>>, res)

\* ERC721.ownerOf reverts for a token that was never minted
ownerOf(tokenId) == nft.owners[tokenId]

\* lines 272-274
getTokensByDonor(donor) == nft.donorTokens[donor]

totalSupply == nft.nextTokenId - 1

\* a direct call of mintCertificate (lines 169-201) by an account
mintCertificate(caller, donor, amount, campaignId) ==
    /\ AnyCaller(caller)
    /\ LET res  == MintCheck(caller, donor)
           args == <<donor, amount, campaignId>>
       IN
       IF res # "ok" THEN Revert("mintCertificate", caller, args, res)
       ELSE /\ nft.nextTokenId <= MaxTokens
            /\ \E random \in TierDraws :
                 LET tokenId == nft.nextTokenId
                     detail  == MintDetail(donor, amount, campaignId, "direct",
                                           blockhash(now), random)
                     n1      == MintStart(nft, donor)
                 IN
                 IF hasCode(donor)
                 THEN /\ frame.op = "none"
                      /\ frame' = [op |-> "mint", actor |-> donor, caller |-> caller,
                                   args |-> args, tokenId |-> tokenId,
                                   detail |-> detail, donationIndex |-> 0,
                                   snap |-> Snapshot]
                      /\ nft' = n1
                      /\ UNCHANGED <<now, dm, voting>>
                 ELSE /\ nft' = MintFinish(n1, tokenId, detail)
                      /\ UNCHANGED <<now, dm, voting, frame>>

\* --------------------------------------------------------- DonationManager
\* lines 301-304
SetNFTContractCheck(caller, addr) ==
    IF caller # dm.owner THEN "Unauthorized"
    ELSE IF addr = NULL THEN "InvalidInput"
    ELSE "ok"

setNFTContract(caller, addr) ==
    /\ AnyCaller(caller)
    /\ LET res == SetNFTContractCheck(caller, addr) IN
       IF res = "ok"
       THEN /\ dm' = [dm EXCEPT !.nftContract = addr]
            /\ UNCHANGED <<now, nft, voting, frame>>
       ELSE Revert("setNFTContract", caller, <<addr>>, res)

\* CreateCampaignCheck with line 327 accepting a deadline equal to the current time
CreateCampaignCheckDeadlineNow(caller, title, description, targetAmount, deadline) ==
    IF caller # dm.owner THEN "Unauthorized"
    ELSE IF ~(Len(title) > 0) THEN "InvalidInput"
    ELSE IF ~(Len(title) <= MAX_TITLE_LENGTH) THEN "InvalidInput"
    ELSE IF ~(Len(description) > 0) THEN "InvalidInput"
    ELSE IF ~(targetAmount > 0) THEN "InvalidInput"
    ELSE IF ~(deadline >= now) THEN "InvalidInput"
    ELSE "ok"

\* onlyOwner, then the requires of lines 323-327
CreateCampaignCheck(caller, title, description, targetAmount, deadline) ==
    IF caller # dm.owner THEN "Unauthorized"
    ELSE IF ~(Len(title) > 0) THEN "InvalidInput"
    ELSE IF ~(Len(title) <= MAX_TITLE_LENGTH) THEN "InvalidInput"
    ELSE IF ~(Len(description) > 0) THEN "InvalidInput"
    ELSE IF ~(targetAmount > 0) THEN "InvalidInput"
    ELSE IF ~(deadline > now) THEN "InvalidInput"
    ELSE "ok"

\* createCampaign taking the id of line 329 before the checks, and keeping it
createCampaignCountsFailures(caller, title, description, targetAmount, deadline) ==
    /\ AnyCaller(caller)
    /\ LET res  == CreateCampaignCheck(caller, title, description, targetAmount, deadline)
           campaignId == dm.nextCampaignId
       IN
       /\ campaignId <= MaxCampaigns
       /\ IF res # "ok"
          THEN dm' = [dm EXCEPT !.nextCampaignId = @ + 1]
          ELSE dm' = [dm EXCEPT
                        !.nextCampaignId = @ + 1,
                        !.campaigns[campaignId] =
                            [id |-> campaignId, title |-> title,
                             description |-> description, imageCID |-> "cid",
                             targetAmount |-> targetAmount, totalRaised |-> 0,
                             isActive |-> TRUE, createdAt |-> now,
                             deadline |-> deadline, creator |-> caller],
                        !.campaignIds = Append(@, campaignId)]
       /\ UNCHANGED <<now, nft, voting, frame>>

\* lines 315-349
createCampaign(caller, title, description, targetAmount, deadline) ==
    /\ AnyCaller(caller)
    /\ LET res  == CreateCampaignCheck(caller, title, description, targetAmount, deadline)
           args == <<title, description, targetAmount, deadline>>
           campaignId == dm.nextCampaignId
       IN
       IF res # "ok" THEN Revert("createCampaign", caller, args, res)
       ELSE /\ campaignId <= MaxCampaigns
            /\ dm' = [dm EXCEPT
                        !.nextCampaignId = @ + 1,
                        !.campaigns[campaignId] =
                            [id |-> campaignId, title |-> title,
                             description |-> description, imageCID |-> "cid",
                             targetAmount |-> targetAmount, totalRaised |-> 0,
                             isActive |-> TRUE, createdAt |-> now,
                             deadline |-> deadline, creator |-> caller],
                        !.campaignIds = Append(@, campaignId)]
            /\ UNCHANGED <<now, nft, voting, frame>>

\* onlyOwner, then line 357
UpdateCampaignStatusCheck(caller, campaignId) ==
    IF caller # dm.owner THEN "Unauthorized"
    ELSE IF dm.campaigns[campaignId].id = 0 THEN "NotFound"
    ELSE "ok"

\* updateCampaignStatus giving a campaign it activates a deadline not yet passed
updateCampaignStatusExtendsDeadline(caller, campaignId, isActive) ==
    /\ AnyCaller(caller)
    /\ LET res  == UpdateCampaignStatusCheck(caller, campaignId)
           args == <<campaignId, isActive>>
       IN
       IF res = "ok"
       THEN /\ dm' = [dm EXCEPT !.campaigns[campaignId].isActive = isActive,
                                !.campaigns[campaignId].deadline =
                                    IF isActive /\ @ < now THEN now ELSE @]
            /\ UNCHANGED <<now, nft, voting, frame>>
       ELSE Revert("updateCampaignStatus", caller, args, res)

\* updateCampaignStatus clearing the raised amount of the campaign it deactivates
updateCampaignStatusResetsRaised(caller, campaignId, isActive) ==
    /\ AnyCaller(caller)
    /\ LET res  == UpdateCampaignStatusCheck(caller, campaignId)
           args == <<campaignId, isActive>>
       IN
       IF res = "ok"
       THEN /\ dm' = [dm EXCEPT !.campaigns[campaignId].isActive = isActive,
                                !.campaigns[campaignId].totalRaised =
                                    IF isActive THEN @ ELSE 0]
            /\ UNCHANGED <<now, nft, voting, frame>>
       ELSE Revert("updateCampaignStatus", caller, args, res)

\* updateCampaignStatus deleting the campaign it deactivates
updateCampaignStatusDelete(caller, campaignId, isActive) ==
    /\ AnyCaller(caller)
    /\ LET res  == UpdateCampaignStatusCheck(caller, campaignId)
           args == <<campaignId, isActive>>
       IN
       IF res = "ok"
       THEN /\ dm' = [dm EXCEPT !.campaigns[campaignId] =
                                  IF isActive THEN [@ EXCEPT !.isActive = TRUE]
                                  ELSE EmptyCampaign]
            /\ UNCHANGED <<now, nft, voting, frame>>
       ELSE Revert("updateCampaignStatus", caller, args, res)

\* lines 356-360
updateCampaignStatus(caller, campaignId, isActive) ==
    /\ AnyCaller(caller)
    /\ LET res  == UpdateCampaignStatusCheck(caller, campaignId)
           args == <<campaignId, isActive>>
       IN
       IF res = "ok"
       THEN /\ dm' = [dm EXCEPT !.campaigns[campaignId].isActive = isActive]
            /\ UNCHANGED <<now, nft, voting, frame>>
       ELSE Revert("updateCampaignStatus", caller, args, res)

\* DonateCheck with the deadline of line 434 compared strictly
DonateCheckStrictDeadline(campaignId, amount) ==
    IF dm.entered THEN "Reentrant"
    ELSE IF ~(amount > 0) THEN "InvalidInput"
    ELSE IF dm.campaigns[campaignId].id = 0 THEN "NotFound"
    ELSE IF ~dm.campaigns[campaignId].isActive THEN "CampaignInactive"
    ELSE IF ~(now < dm.campaigns[campaignId].deadline) THEN "DeadlinePassed"
    ELSE "ok"

\* DonateCheck without the nonReentrant modifier of line 426
DonateCheckNoLock(campaignId, amount) ==
    IF ~(amount > 0) THEN "InvalidInput"
    ELSE IF dm.campaigns[campaignId].id = 0 THEN "NotFound"
    ELSE IF ~dm.campaigns[campaignId].isActive THEN "CampaignInactive"
    ELSE IF ~(now <= dm.campaigns[campaignId].deadline) THEN "DeadlinePassed"
    ELSE "ok"

\* DonateCheck with the requirement of lines 433-436 before that of line 430
DonateCheckDeadlineFirst(campaignId, amount) ==
    IF dm.entered THEN "Reentrant"
    ELSE IF ~(amount > 0) THEN "InvalidInput"
    ELSE IF dm.campaigns[campaignId].id = 0 THEN "NotFound"
    ELSE IF ~(now <= dm.campaigns[campaignId].deadline) THEN "DeadlinePassed"
    ELSE IF ~dm.campaigns[campaignId].isActive THEN "CampaignInactive"
    ELSE "ok"

\* DonateCheck without the deadline requirement of lines 433-436
DonateCheckNoDeadline(campaignId, amount) ==
    IF dm.entered THEN "Reentrant"
    ELSE IF ~(amount > 0) THEN "InvalidInput"
    ELSE IF dm.campaigns[campaignId].id = 0 THEN "NotFound"
    ELSE IF ~dm.campaigns[campaignId].isActive THEN "CampaignInactive"
    ELSE "ok"

\* nonReentrant, then the requires of lines 428-436
DonateCheck(campaignId, amount) ==
    IF dm.entered THEN "Reentrant"
    ELSE IF ~(amount > 0) THEN "InvalidInput"
    ELSE IF dm.campaigns[campaignId].id = 0 THEN "NotFound"
    ELSE IF ~dm.campaigns[campaignId].isActive THEN "CampaignInactive"
    ELSE IF ~(now <= dm.campaigns[campaignId].deadline) THEN "DeadlinePassed"
    ELSE "ok"

\* DonateLedger without the test of line 462
DonateLedgerAlwaysPushes(d, sender, campaignId, amount) ==
    LET donation == [id |-> Len(d.allDonations) + 1, donor |-> sender,
                     campaignId |-> campaignId, amount |-> amount,
                     timestamp |-> now, txHash |-> blockhash(now),
                     nftMinted |-> FALSE]
    IN  [d EXCEPT
           !.entered = TRUE,
           !.balance = @ + amount,
           !.allDonations = Append(@, donation),
           !.donorDonations[sender] = Append(@, Len(d.allDonations)),
           !.campaignDonations[campaignId] = Append(@, Len(d.allDonations)),
           !.campaigns[campaignId].totalRaised = @ + amount,
           !.totalDonationsReceived = @ + amount,
           !.donorTotalAmount[sender] = @ + amount,
           !.hasDonated[sender] = TRUE,
           !.uniqueDonors = Append(@, sender)]

\* DonateLedger with line 458 as an assignment instead of an increment
DonateLedgerOverwrite(d, sender, campaignId, amount) ==
    LET donation == [id |-> Len(d.allDonations) + 1, donor |-> sender,
                     campaignId |-> campaignId, amount |-> amount,
                     timestamp |-> now, txHash |-> blockhash(now),
                     nftMinted |-> FALSE]
    IN  [d EXCEPT
           !.entered = TRUE,
           !.balance = @ + amount,
           !.allDonations = Append(@, donation),
           !.donorDonations[sender] = Append(@, Len(d.allDonations)),
           !.campaignDonations[campaignId] = Append(@, Len(d.allDonations)),
           !.campaigns[campaignId].totalRaised = amount,
           !.totalDonationsReceived = @ + amount,
           !.donorTotalAmount[sender] = @ + amount,
           !.hasDonated[sender] = TRUE,
           !.uniqueDonors = IF d.hasDonated[sender] THEN @ ELSE Append(@, sender)]

\* donate from the receipt of msg.value to line 465, the lock taken
DonateLedger(d, sender, campaignId, amount) ==
    LET donationId    == Len(d.allDonations) + 1
        donation      == [id |-> donationId, donor |-> sender,
                          campaignId |-> campaignId, amount |-> amount,
                          timestamp |-> now, txHash |-> blockhash(now),
                          nftMinted |-> FALSE]
        donationIndex == Len(d.allDonations)
    IN  [d EXCEPT
           !.entered = TRUE,
           !.balance = @ + amount,
           !.allDonations = Append(@, donation),
           !.donorDonations[sender] = Append(@, donationIndex),
           !.campaignDonations[campaignId] = Append(@, donationIndex),
           !.campaigns[campaignId].totalRaised = @ + amount,
           !.totalDonationsReceived = @ + amount,
           !.donorTotalAmount[sender] = @ + amount,
           !.hasDonated[sender] = TRUE,
           !.uniqueDonors = IF d.hasDonated[sender] THEN @ ELSE Append(@, sender)]

\* MintsCertificate with the comparison of line 468 strict
MintsCertificateStrict(amount) ==
    amount > MIN_DONATION_FOR_NFT /\ dm.nftContract # NULL

\* the condition of line 468: the donation is due a certificate
MintsCertificate(amount) ==
    amount >= MIN_DONATION_FOR_NFT /\ dm.nftContract # NULL

\* DonateFinish returning without the release of the lock
DonateFinishKeepsLock(d, donationIndex, minted) ==
    [d EXCEPT !.allDonations[donationIndex + 1].nftMinted = minted]

\* DonateFinish with line 476 writing the flag of every record
DonateFinishFlagsAll(d, donationIndex, minted) ==
    [d EXCEPT !.allDonations = [i \in DOMAIN @ |-> [@[i] EXCEPT !.nftMinted = minted]],
              !.entered = FALSE]

\* line 476 and the release of the lock
DonateFinish(d, donationIndex, minted) ==
    [d EXCEPT !.allDonations[donationIndex + 1].nftMinted = minted,
              !.entered = FALSE]

\* lines 426-480
donate(caller, campaignId, amount) ==
    /\ AnyCaller(caller) \/ (StipendCaller(caller) /\ amount = 0)
    /\ LET res  == DonateCheck(campaignId, amount)
           args == <<campaignId, amount>>
       IN
       IF res # "ok" THEN Revert("donate", caller, args, res)
       ELSE
       /\ Len(dm.allDonations) < MaxDonations
       /\ LET d1            == DonateLedger(dm, caller, campaignId, amount)
              donationIndex == Len(dm.allDonations)
              mints         == MintsCertificate(amount)
              mres          == MintCheck(DM, caller)
          IN
          IF ~mints
          THEN /\ dm' = DonateFinish(d1, donationIndex, FALSE)
               /\ UNCHANGED <<now, nft, voting, frame>>
          ELSE IF mres # "ok" THEN Revert("donate", caller, args, mres)
          ELSE
          /\ nft.nextTokenId <= MaxTokens
          /\ \E random \in RandomDraws :
               LET tokenId == nft.nextTokenId
                   detail  == MintDetail(caller, amount, campaignId,
                                         dm.campaigns[campaignId].title,
                                         blockhash(now), random)
                   n1      == MintStart(nft, caller)
               IN
               IF hasCode(caller)
               THEN /\ frame' = [op |-> "donate", actor |-> caller, caller |-> caller,
                                 args |-> args, tokenId |-> tokenId,
                                 detail |-> detail, donationIndex |-> donationIndex,
                                 snap |-> Snapshot]
                    /\ dm' = d1
                    /\ nft' = n1
                    /\ UNCHANGED <<now, voting>>
               ELSE /\ dm' = DonateFinish(d1, donationIndex, TRUE)
                    /\ nft' = MintFinish(n1, tokenId, detail)
                    /\ UNCHANGED <<now, voting, frame>>

\* WithdrawCheck with the modifiers of line 381 in the order nonReentrant onlyOwner
WithdrawCheckLockFirst(caller, description, recipient, amount) ==
    IF dm.entered THEN "Reentrant"
    ELSE IF caller # dm.owner THEN "Unauthorized"
    ELSE IF ~(Len(description) > 0) THEN "InvalidInput"
    ELSE IF recipient = NULL THEN "InvalidInput"
    ELSE IF ~(amount > 0) THEN "InvalidInput"
    ELSE IF ~(dm.balance >= amount) THEN "InsufficientBalance"
    ELSE "ok"

\* WithdrawCheck with line 386 comparing against the total ever received
WithdrawCheckReceived(caller, description, recipient, amount) ==
    IF caller # dm.owner THEN "Unauthorized"
    ELSE IF dm.entered THEN "Reentrant"
    ELSE IF ~(Len(description) > 0) THEN "InvalidInput"
    ELSE IF recipient = NULL THEN "InvalidInput"
    ELSE IF ~(amount > 0) THEN "InvalidInput"
    ELSE IF ~(dm.totalDonationsReceived >= amount) THEN "InsufficientBalance"
    ELSE "ok"

\* onlyOwner, nonReentrant, then the requires of lines 383-386
WithdrawCheck(caller, description, recipient, amount) ==
    IF caller # dm.owner THEN "Unauthorized"
    ELSE IF dm.entered THEN "Reentrant"
    ELSE IF ~(Len(description) > 0) THEN "InvalidInput"
    ELSE IF recipient = NULL THEN "InvalidInput"
    ELSE IF ~(amount > 0) THEN "InvalidInput"
    ELSE IF ~(dm.balance >= amount) THEN "InsufficientBalance"
    ELSE "ok"

\* WithdrawLedger also taking the amount off the raised total of the campaign
WithdrawLedgerDebitsCampaign(d, description, recipient, amount, campaignId) ==
    LET expense == [id |-> d.nextExpenseId, description |-> description,
                    amount |-> amount, recipient |-> recipient,
                    timestamp |-> now, txHash |-> blockhash(now),
                    campaignId |-> campaignId]
    IN  [d EXCEPT !.entered = TRUE,
                  !.nextExpenseId = @ + 1,
                  !.allExpenses = Append(@, expense),
                  !.totalExpensesLogged = @ + amount,
                  !.balance = @ - amount,
                  !.campaigns[campaignId].totalRaised = @ - amount]

\* WithdrawLedger with the transfer of line 408 made before lines 404-405
WithdrawLedgerTransferFirst(d, description, recipient, amount, campaignId) ==
    [d EXCEPT !.entered = TRUE,
              !.nextExpenseId = @ + 1,
              !.balance = @ - amount]

\* WithdrawLedger with line 388 reading _nextExpenseId without incrementing it
WithdrawLedgerReusesId(d, description, recipient, amount, campaignId) ==
    LET expense == [id |-> d.nextExpenseId, description |-> description,
                    amount |-> amount, recipient |-> recipient,
                    timestamp |-> now, txHash |-> blockhash(now),
                    campaignId |-> campaignId]
    IN  [d EXCEPT !.entered = TRUE,
                  !.allExpenses = Append(@, expense),
                  !.totalExpensesLogged = @ + amount,
                  !.balance = @ - amount]

\* WithdrawLedger also taking the amount off the total received
WithdrawLedgerReducesReceived(d, description, recipient, amount, campaignId) ==
    LET expense == [id |-> d.nextExpenseId, description |-> description,
                    amount |-> amount, recipient |-> recipient,
                    timestamp |-> now, txHash |-> blockhash(now),
                    campaignId |-> campaignId]
    IN  [d EXCEPT !.entered = TRUE,
                  !.nextExpenseId = @ + 1,
                  !.allExpenses = Append(@, expense),
                  !.totalExpensesLogged = @ + amount,
                  !.totalDonationsReceived = @ - amount,
                  !.balance = @ - amount]

\* lines 388-408: the expense is logged, then the ether leaves the ledger
WithdrawLedger(d, description, recipient, amount, campaignId) ==
    LET expense == [id |-> d.nextExpenseId, description |-> description,
                    amount |-> amount, recipient |-> recipient,
                    timestamp |-> now, txHash |-> blockhash(now),
                    campaignId |-> campaignId]
    IN  [d EXCEPT !.entered = TRUE,
                  !.nextExpenseId = @ + 1,
                  !.allExpenses = Append(@, expense),
                  !.totalExpensesLogged = @ + amount,
                  !.balance = @ - amount]

\* lines 376-411
withdrawWithLog(caller, description, recipient, amount, campaignId) ==
    /\ AnyCaller(caller) \/ StipendCaller(caller)
    /\ LET res  == WithdrawCheck(caller, description, recipient, amount)
           args == <<description, recipient, amount, campaignId>>
       IN
       IF res # "ok" THEN Revert("withdrawWithLog", caller, args, res)
       ELSE
       /\ Len(dm.allExpenses) < MaxExpenses
       /\ LET d1 == WithdrawLedger(dm, description, recipient, amount, campaignId) IN
          IF hasCode(recipient)
          THEN /\ frame' = [op |-> "withdraw", actor |-> recipient, caller |-> caller,
                            args |-> args, tokenId |-> 0, detail |-> EmptyDetail,
                            donationIndex |-> 0, snap |-> Snapshot]
               /\ dm' = d1
               /\ UNCHANGED <<now, nft, voting>>
          ELSE /\ dm' = [d1 EXCEPT !.entered = FALSE]
               /\ UNCHANGED <<now, nft, voting, frame>>

\* receive accepting the payment instead of reverting
receiveAccept(caller, amount) ==
    /\ AnyCaller(caller)
    /\ dm' = [dm EXCEPT !.balance = @ + amount]
    /\ UNCHANGED <<now, nft, voting, frame>>

\* lines 629-631: a plain payment to the ledger reverts
receive(caller, amount) ==
    /\ AnyCaller(caller)
    /\ Revert("receive", caller, <<amount>>, "Rejected")

getBalance == dm.balance

\* an array with the elements at i and j exchanged (1-based here)
Swap(s, i, j) ==
    [k \in 1 .. Len(s) |-> IF k = i THEN s[j] ELSE IF k = j THEN s[i] ELSE s[k]]

\* the two arrays of getLeaderboard after lines 575-578
SwapIfGreater(l, i, j) ==
    IF l.totals[j] > l.totals[i]
    THEN [donors |-> Swap(l.donors, i, j), totals |-> Swap(l.totals, i, j)]
    ELSE l

RECURSIVE SortInner(_, _, _)
\* the inner loop of lines 574-579, from j on
SortInner(l, i, j) ==
    IF j > Len(l.totals) THEN l ELSE SortInner(SwapIfGreater(l, i, j), i, j + 1)

RECURSIVE SortOuter(_, _)
\* the outer loop of lines 573-580, from i on
SortOuter(l, i) ==
    IF i > Len(l.totals) THEN l ELSE SortOuter(SortInner(l, i, i + 1), i + 1)

\* lines 555-592
getLeaderboard(count) ==
    LET donorCount == Len(dm.uniqueDonors)
        n          == IF count > donorCount THEN donorCount ELSE count
        copied     == [donors |-> dm.uniqueDonors,
                       totals |-> [i \in 1 .. donorCount |->
                                      dm.donorTotalAmount[dm.uniqueDonors[i]]]]
        sorted     == SortOuter(copied, 1)
    IN  [addresses |-> SubSeq(sorted.donors, 1, n),
         amounts   |-> SubSeq(sorted.totals, 1, n)]

\* a call of the view: it returns two arrays of the same length and writes nothing
getLeaderboardCall(caller, count) ==
    /\ AnyCaller(caller)
    /\ Len(getLeaderboard(count).addresses) = Len(getLeaderboard(count).amounts)
    /\ UNCHANGED vars

\* ------------------------------------------------------------------ Voting
\* lines 66-70
VotingSetNFTContractCheck(caller, addr) ==
    IF caller # voting.owner THEN "Unauthorized"
    ELSE IF addr = NULL THEN "InvalidInput"
    ELSE "ok"

VotingSetNFTContract(caller, addr) ==
    /\ AnyCaller(caller)
    /\ LET res == VotingSetNFTContractCheck(caller, addr) IN
       IF res = "ok"
       THEN /\ voting' = [voting EXCEPT !.nftContract = addr]
            /\ UNCHANGED <<now, dm, nft, frame>>
       ELSE Revert("Voting.setNFTContract", caller, <<addr>>, res)

\* VoteCheck without the requirement of line 83
VoteCheckNoOwner(caller, campaignId, tokenId) ==
    IF voting.entered THEN "Reentrant"
    ELSE IF ownerOf(tokenId) = NULL THEN "NotFound"
    ELSE IF voting.tokenUsed[tokenId] THEN "AlreadyUsed"
    ELSE IF nft.donationDetails[tokenId].campaignId # campaignId THEN "CampaignMismatch"
    ELSE "ok"

\* VoteCheck without the requirement of line 86
VoteCheckNoUsed(caller, campaignId, tokenId) ==
    IF voting.entered THEN "Reentrant"
    ELSE IF ownerOf(tokenId) = NULL THEN "NotFound"
    ELSE IF ownerOf(tokenId) # caller THEN "NotOwner"
    ELSE IF nft.donationDetails[tokenId].campaignId # campaignId THEN "CampaignMismatch"
    ELSE "ok"

\* VoteCheck without the requirement of line 92
VoteCheckNoCampaign(caller, campaignId, tokenId) ==
    IF voting.entered THEN "Reentrant"
    ELSE IF ownerOf(tokenId) = NULL THEN "NotFound"
    ELSE IF ownerOf(tokenId) # caller THEN "NotOwner"
    ELSE IF voting.tokenUsed[tokenId] THEN "AlreadyUsed"
    ELSE "ok"

\* VoteCheck with the requirement of line 89 before that of lines 84-87
VoteCheckUsedFirst(caller, campaignId, tokenId) ==
    IF voting.entered THEN "Reentrant"
    ELSE IF ownerOf(tokenId) = NULL THEN "NotFound"
    ELSE IF voting.tokenUsed[tokenId] THEN "AlreadyUsed"
    ELSE IF ownerOf(tokenId) # caller THEN "NotOwner"
    ELSE IF nft.donationDetails[tokenId].campaignId # campaignId THEN "CampaignMismatch"
    ELSE "ok"

\* VoteCheck asking the ledger whether the campaign still takes donations
VoteCheckOpenCampaign(caller, campaignId, tokenId) ==
    IF voting.entered THEN "Reentrant"
    ELSE IF ownerOf(tokenId) = NULL THEN "NotFound"
    ELSE IF ownerOf(tokenId) # caller THEN "NotOwner"
    ELSE IF voting.tokenUsed[tokenId] THEN "AlreadyUsed"
    ELSE IF nft.donationDetails[tokenId].campaignId # campaignId THEN "CampaignMismatch"
    ELSE IF ~(dm.campaigns[campaignId].isActive /\ now <= dm.campaigns[campaignId].deadline)
         THEN "CampaignInactive"
    ELSE "ok"

\* nonReentrant, then lines 83-92; ownerOf reverts for an unminted token
VoteCheck(caller, campaignId, tokenId) ==
    IF voting.entered THEN "Reentrant"
    ELSE IF ownerOf(tokenId) = NULL THEN "NotFound"
    ELSE IF ownerOf(tokenId) # caller THEN "NotOwner"
    ELSE IF voting.tokenUsed[tokenId] THEN "AlreadyUsed"
    ELSE IF nft.donationDetails[tokenId].campaignId # campaignId THEN "CampaignMismatch"
    ELSE "ok"

\* lines 95-98
VoteEffect(v, caller, campaignId, tokenId) ==
    [v EXCEPT !.tokenUsed[tokenId] = TRUE,
              !.campaignVotes[campaignId] = @ + 1,
              !.voted = Append(@, [campaignId |-> campaignId, voter |-> caller,
                                   tokenId |-> tokenId])]

\* vote with line 95 flipping the flag, so that voting again takes the vote back
voteToggle(caller, campaignId, tokenId) ==
    /\ AnyCaller(caller)
    /\ LET res == VoteCheck(caller, campaignId, tokenId) IN
       IF res = "ok"
       THEN /\ voting' = VoteEffect(voting, caller, campaignId, tokenId)
            /\ UNCHANGED <<now, dm, nft, frame>>
       ELSE IF res = "AlreadyUsed"
       THEN /\ voting' = [voting EXCEPT !.tokenUsed[tokenId] = FALSE]
            /\ UNCHANGED <<now, dm, nft, frame>>
       ELSE Revert("vote", caller, <<campaignId, tokenId>>, res)

\* lines 81-99
vote(caller, campaignId, tokenId) ==
    /\ AnyCaller(caller)
    /\ LET res == VoteCheck(caller, campaignId, tokenId) IN
       IF res = "ok"
       THEN /\ voting' = VoteEffect(voting, caller, campaignId, tokenId)
            /\ UNCHANGED <<now, dm, nft, frame>>
       ELSE Revert("vote", caller, <<campaignId, tokenId>>, res)

hasVoted(tokenId) == voting.tokenUsed[tokenId]

getVotes(campaignId) == voting.campaignVotes[campaignId]

\* ----------------------------------------------------------------- Ownable
\* the three contracts inherit Ownable; Owner is the owner() of each
Components == {"DonationManager", "DonachainNFT", "Voting"}

Owner(c) == IF c = DM THEN dm.owner ELSE IF c = NFT THEN nft.owner ELSE voting.owner

\* TransferOwnershipCheck without the onlyOwner modifier
TransferOwnershipCheckAnyone(c, caller, newOwner) ==
    IF newOwner = NULL THEN "InvalidInput"
    ELSE "ok"

\* Ownable.transferOwnership: onlyOwner, then the new owner must not be null
TransferOwnershipCheck(c, caller, newOwner) ==
    IF caller # Owner(c) THEN "Unauthorized"
    ELSE IF newOwner = NULL THEN "InvalidInput"
    ELSE "ok"

\* Ownable._transferOwnership
SetOwner(c, newOwner) ==
    /\ dm' = IF c = DM THEN [dm EXCEPT !.owner = newOwner] ELSE dm
    /\ nft' = IF c = NFT THEN [nft EXCEPT !.owner = newOwner] ELSE nft
    /\ voting' = IF c \notin {DM, NFT} THEN [voting EXCEPT !.owner = newOwner] ELSE voting
    /\ UNCHANGED <<now, frame>>

transferOwnership(c, caller, newOwner) ==
    /\ AnyCaller(caller)
    /\ LET res == TransferOwnershipCheck(c, caller, newOwner) IN
       IF res = "ok" THEN SetOwner(c, newOwner)
       ELSE Revert("transferOwnership", caller, <<c, newOwner>>, res)

\* Ownable.renounceOwnership: onlyOwner, then the owner is the null account
RenounceOwnershipCheck(c, caller) ==
    IF caller # Owner(c) THEN "Unauthorized" ELSE "ok"

renounceOwnership(c, caller) ==
    /\ AnyCaller(caller)
    /\ LET res == RenounceOwnershipCheck(c, caller) IN
       IF res = "ok" THEN SetOwner(c, NULL)
       ELSE Revert("renounceOwnership", caller, <<c>>, res)

\* ------------------------------------------------------- end of a callback
\* the callback returns: the suspended operation runs to its end
CallbackReturn ==
    /\ frame.op # "none"
    /\ frame' = NoFrame
    /\ dm' = IF frame.op = "donate" THEN DonateFinish(dm, frame.donationIndex, TRUE)
             ELSE IF frame.op = "withdraw" THEN [dm EXCEPT !.entered = FALSE]
             ELSE dm
    /\ nft' = IF frame.op \in {"donate", "mint"}
              THEN MintFinish(nft, frame.tokenId, frame.detail)
              ELSE nft
    /\ UNCHANGED <<now, voting>>

\* CallbackRevert undoing the mint but keeping what the ledger had written
CallbackRevertKeepsLedger ==
    /\ frame.op # "none"
    /\ frame' = NoFrame
    /\ dm' = [dm EXCEPT !.entered = FALSE]
    /\ nft' = frame.snap.nft
    /\ voting' = frame.snap.voting
    /\ UNCHANGED now

\* the callback reverts (or returns a wrong value): the transaction is rolled back
CallbackRevert ==
    /\ frame.op # "none"
    /\ frame' = NoFrame
    /\ dm' = frame.snap.dm
    /\ nft' = frame.snap.nft
    /\ voting' = frame.snap.voting
    /\ UNCHANGED now

\* a later block
Tick ==
    /\ frame.op = "none"
    /\ now < MaxTime
    /\ now' = now + 1
    /\ UNCHANGED <<dm, nft, voting, frame>>

\* --------------------------------------------------------------------- Next
Admins  == {"admin", "alice"}
Donors  == {"alice", "mallory"}
Holders == {"alice", "mallory"}

\* createCampaign: a valid call, and one call per requirement it can violate
ValidCampaign ==
    [caller |-> "admin", title |-> "Banjir", description |-> "Bantuan", targetAmount |-> 5,
     deadline |-> now + 1]

\* a title of 101 bytes
LongTitle ==
    "Bantuan darurat untuk korban banjir bandang dan tanah longsor di seluruh wilayah kabupaten pesisir..."

CampaignInputs ==
    { ValidCampaign,
      [ValidCampaign EXCEPT !.caller = "alice"],
      [ValidCampaign EXCEPT !.title = ""],
      [ValidCampaign EXCEPT !.title = LongTitle],
      [ValidCampaign EXCEPT !.description = ""],
      [ValidCampaign EXCEPT !.targetAmount = 0],
      [ValidCampaign EXCEPT !.deadline = now] }

\* withdrawWithLog: the same
ValidWithdrawal ==
    [caller |-> "admin", description |-> "Sewa", recipient |-> "alice", amount |-> 1]

WithdrawalInputs ==
    { ValidWithdrawal,
      [ValidWithdrawal EXCEPT !.caller = "mallory"],
      [ValidWithdrawal EXCEPT !.recipient = "mallory"],
      [ValidWithdrawal EXCEPT !.amount = MIN_DONATION_FOR_NFT],
      [ValidWithdrawal EXCEPT !.description = ""],
      [ValidWithdrawal EXCEPT !.recipient = NULL],
      [ValidWithdrawal EXCEPT !.amount = 0] }

\* The ledger: campaigns, donations with their mints, withdrawals, and time.
NextLedger ==
    \/ \E caller \in Admins, addr \in {NULL, NFT} : setNFTContract(caller, addr)
    \/ \E caller \in Admins, addr \in {NULL, DM} : setDonationManager(caller, addr)
    \/ \E c \in CampaignInputs :
          createCampaign(c.caller, c.title, c.description, c.targetAmount, c.deadline)
    \/ \E caller \in Admins, campaignId \in CampaignIdInputs, isActive \in BOOLEAN :
          updateCampaignStatus(caller, campaignId, isActive)
    \/ \E caller \in Donors, campaignId \in CampaignIdInputs, amount \in AmountInputs :
          donate(caller, campaignId, amount)
    \/ \E w \in WithdrawalInputs :
          /\ Len(dm.allExpenses) < LedgerExpenses
          /\ withdrawWithLog(w.caller, w.description, w.recipient, w.amount, 1)
    \/ \E caller \in Donors : receive(caller, 1)
    \/ CallbackReturn
    \/ CallbackRevert
    \/ Tick

SpecLedger == Init /\ [][NextLedger]_vars

\* The ballot: certificates minted by donations, their transfers, and votes.
NextBallot ==
    \/ \E caller \in Admins, addr \in {NULL, NFT} : setNFTContract(caller, addr)
    \/ \E caller \in Admins, addr \in {NULL, DM} : setDonationManager(caller, addr)
    \/ \E caller \in Admins, addr \in {NULL, NFT} : VotingSetNFTContract(caller, addr)
    \/ \E c \in CampaignInputs :
          createCampaign(c.caller, c.title, c.description, c.targetAmount, c.deadline)
    \/ \E caller \in Admins, campaignId \in CampaignIdInputs, isActive \in BOOLEAN :
          updateCampaignStatus(caller, campaignId, isActive)
    \/ \E caller \in Donors, campaignId \in CampaignIdInputs, amount \in AmountInputs :
          donate(caller, campaignId, amount)
    \/ \E caller \in Holders, to \in Holders, tokenId \in TokenIdInputs :
          transferFrom(caller, to, tokenId)
    \/ \E caller \in Holders, campaignId \in CampaignIdInputs, tokenId \in TokenIdInputs :
          vote(caller, campaignId, tokenId)
    \/ CallbackReturn
    \/ CallbackRevert

SpecBallot == Init /\ [][NextBallot]_vars

\* The registry: the minter is set and changed, certificates are minted by the
\* ledger's donations and by direct calls of mintCertificate.
Minters == {"admin", "alice", "mallory"}

NextRegistry ==
    \/ \E caller \in Admins, addr \in {NULL, NFT} : setNFTContract(caller, addr)
    \/ \E caller \in Admins, addr \in {NULL, DM, "alice"} : setDonationManager(caller, addr)
    \/ \E c \in CampaignInputs :
          createCampaign(c.caller, c.title, c.description, c.targetAmount, c.deadline)
    \/ \E caller \in Donors, campaignId \in CampaignIdInputs, amount \in AmountInputs :
          donate(caller, campaignId, amount)
    \/ \E caller \in Minters, donor \in {NULL, "alice", "mallory"}, amount \in TierAmounts :
          mintCertificate(caller, donor, amount, 1)
    \/ CallbackReturn
    \/ CallbackRevert

SpecRegistry == Init /\ [][NextRegistry]_vars

\* The treasury: donations without certificates, and withdrawals.
NextTreasury ==
    \/ \E c \in CampaignInputs :
          createCampaign(c.caller, c.title, c.description, c.targetAmount, c.deadline)
    \/ \E caller \in Donors, campaignId \in CampaignIdInputs, amount \in AmountInputs :
          donate(caller, campaignId, amount)
    \/ \E w \in WithdrawalInputs, campaignId \in {0, 1} :
          withdrawWithLog(w.caller, w.description, w.recipient, w.amount, campaignId)
    \/ CallbackReturn
    \/ CallbackRevert

SpecTreasury == Init /\ [][NextTreasury]_vars

\* The leaderboard: the ledger after a campaign and a history of up to
\* MaxHistory donations without certificates, then the view and more donations.
HistoryInputs == [donor : Accounts, amount : {1, MIN_DONATION_FOR_NFT}]

\* the ledger after the administrator's createCampaign of ValidCampaign at time 0
LedgerWithCampaign ==
    [DMInit EXCEPT
       !.nextCampaignId = 2,
       !.campaigns[1] = [id |-> 1, title |-> "Banjir", description |-> "Bantuan",
                         imageCID |-> "cid", targetAmount |-> 5, totalRaised |-> 0,
                         isActive |-> TRUE, createdAt |-> 0, deadline |-> 1,
                         creator |-> "admin"],
       !.campaignIds = <<1>>]

RECURSIVE LedgerAfter(_)
\* the ledger after the donations of history h to campaign 1, in order
LedgerAfter(h) ==
    IF h = <<>> THEN LedgerWithCampaign
    ELSE LET d == LedgerAfter(SubSeq(h, 1, Len(h) - 1))
             x == h[Len(h)]
         IN  DonateFinish(DonateLedger(d, x.donor, 1, x.amount),
                          Len(d.allDonations), FALSE)

InitBoard ==
    /\ now = 0
    /\ nft = NFTInit
    /\ voting = VotingInit
    /\ frame = NoFrame
    /\ \E n \in 0 .. MaxHistory :
         \E h \in [1 .. n -> HistoryInputs] : dm = LedgerAfter(h)

NextBoard ==
    \/ \E caller \in Accounts, count \in 0 .. (MaxHistory + 1) :
          getLeaderboardCall(caller, count)
    \/ \E caller \in Accounts, amount \in {1, MIN_DONATION_FOR_NFT} :
          donate(caller, 1, amount)

SpecBoard == InitBoard /\ [][NextBoard]_vars

\* The administration: ownership of the three contracts is transferred and
\* renounced, and every account tries the owner-only functions.
NextAdmin ==
    \/ \E c \in Components, caller \in Accounts, newOwner \in {NULL, "admin", "alice"} :
          transferOwnership(c, caller, newOwner)
    \/ \E c \in Components, caller \in Accounts : renounceOwnership(c, caller)
    \/ \E caller \in Accounts, addr \in {NULL, NFT} : setNFTContract(caller, addr)
    \/ \E caller \in Accounts, addr \in {NULL, DM} : setDonationManager(caller, addr)
    \/ \E caller \in Accounts, addr \in {NULL, NFT} : VotingSetNFTContract(caller, addr)
    \/ \E c \in CampaignInputs, caller \in Accounts :
          createCampaign(caller, c.title, c.description, c.targetAmount, c.deadline)
    \/ \E caller \in Accounts, campaignId \in CampaignIdInputs, isActive \in BOOLEAN :
          updateCampaignStatus(caller, campaignId, isActive)
    \/ \E campaignId \in CampaignIdInputs : donate("alice", campaignId, 1)
    \/ \E w \in WithdrawalInputs, caller \in Accounts :
          withdrawWithLog(caller, w.description, w.recipient, w.amount, 1)
    \/ CallbackReturn
    \/ CallbackRevert

SpecAdmin == Init /\ [][NextAdmin]_vars

\* The locks: the ballot together with the ledger's withdrawals.
NextLocks ==
    \/ NextBallot
    \/ \E w \in WithdrawalInputs :
          /\ Len(dm.allExpenses) < LedgerExpenses
          /\ withdrawWithLog(w.caller, w.description, w.recipient, w.amount, 1)

SpecLocks == Init /\ [][NextLocks]_vars

\* The nested calls: the ledger's ownership can pass to a contract account,
\* which then is the caller inside its own callbacks.
NextNested ==
    \/ \E caller \in {"admin", "mallory"} : transferOwnership(DM, caller, "mallory")
    \/ \E caller \in {"admin", "mallory"} : setNFTContract(caller, NFT)
    \/ setDonationManager("admin", DM)
    \/ \E c \in CampaignInputs :
          createCampaign(c.caller, c.title, c.description, c.targetAmount, c.deadline)
    \/ \E caller \in Donors, campaignId \in CampaignIdInputs, amount \in AmountInputs :
          donate(caller, campaignId, amount)
    \/ \E w \in WithdrawalInputs, caller \in {"admin", "mallory"} :
          withdrawWithLog(caller, w.description, w.recipient, w.amount, 1)
    \/ CallbackReturn
    \/ CallbackRevert

SpecNested == Init /\ [][NextNested]_vars

\* The polls: the ballot together with the passing of time.
NextPolls ==
    \/ NextBallot
    \/ Tick

SpecPolls == Init /\ [][NextPolls]_vars

\* ================================================================== claims
\* the transaction in progress is rolled back
Rollback ==
    /\ frame.op # "none"
    /\ frame'.op = "none"
    /\ dm' = frame.snap.dm
    /\ nft' = frame.snap.nft
    /\ voting' = frame.snap.voting

\* the Donation records of a campaign
DonationsOf(campaignId) ==
    SelectSeq(dm.allDonations, LAMBDA d : d.campaignId = campaignId)

\* C1: in every reachable state, every campaign's totalRaised equals the sum
\* of the amounts of the Donation records whose campaignId is that campaign.
C1_RaisedIsSumOfDonations ==
    \A c \in CampaignIdInputs :
        dm.campaigns[c].totalRaised = SumAmounts(DonationsOf(c))

\* two donations of different amounts to one campaign, another campaign empty
C1_Witness ==
    /\ frame.op = "none"
    /\ \E c \in CampaignIdInputs :
         /\ Len(DonationsOf(c)) = 2
         /\ dm.campaigns[c].totalRaised = 1 + MIN_DONATION_FOR_NFT
    /\ \E c \in CampaignIdInputs :
         dm.campaigns[c].id # 0 /\ dm.campaigns[c].totalRaised = 0

\* a step that appends a Donation and credits its amount to the balance
DonationStep ==
    /\ Len(dm'.allDonations) = Len(dm.allDonations) + 1
    /\ dm'.balance = dm.balance + dm'.allDonations[Len(dm'.allDonations)].amount

\* a step that appends an Expense and debits its amount from the balance
WithdrawalStep ==
    /\ Len(dm'.allExpenses) = Len(dm.allExpenses) + 1
    /\ dm'.balance = dm.balance - dm'.allExpenses[Len(dm'.allExpenses)].amount

\* C2: the balance is never negative and always equals totalDonationsReceived
\* minus totalExpensesLogged; it grows only in a donate step (or when a
\* withdrawal in progress is rolled back) and shrinks only in a withdrawWithLog
\* step (or when a donation in progress is rolled back); receive adds nothing.
C2_BalanceIsReceivedMinusSpent ==
    /\ [](dm.balance >= 0
          /\ getBalance = dm.totalDonationsReceived - dm.totalExpensesLogged)
    /\ [][/\ dm'.balance > dm.balance =>
                DonationStep \/ (Rollback /\ frame.op = "withdraw")
          /\ dm'.balance < dm.balance =>
                WithdrawalStep \/ (Rollback /\ frame.op = "donate")]_vars

\* after donations and a withdrawal, with money left
C2_Witness ==
    /\ frame.op = "none"
    /\ dm.totalDonationsReceived = 1 + MIN_DONATION_FOR_NFT
    /\ dm.totalExpensesLogged = 1
    /\ dm.balance = MIN_DONATION_FOR_NFT

\* the calls of withdrawWithLog the claims C3 speak of
WithdrawCalls ==
    [caller : Accounts, description : {"", "Sewa"},
     recipient : {NULL, "alice", "mallory"}, amount : 0 .. (2 * MIN_DONATION_FOR_NFT)]

\* the accounts that can call withdrawWithLog in the current state
CanWithdraw(caller) == AnyCaller(caller) \/ StipendCaller(caller)

ExceedsBalance(w) == w.amount > dm.totalDonationsReceived - dm.totalExpensesLogged

\* C3 as stated: every withdrawWithLog call whose amount exceeds total received
\* minus total spent fails with InsufficientBalance.
C3_AlwaysInsufficientBalance ==
    \A w \in WithdrawCalls :
        CanWithdraw(w.caller) /\ ExceedsBalance(w) =>
            WithdrawCheck(w.caller, w.description, w.recipient, w.amount)
                = "InsufficientBalance"

\* C3 (amended): a withdrawWithLog call whose amount exceeds total received
\* minus total spent never succeeds; it fails with InsufficientBalance when the
\* caller is the administrator, no ledger operation is in progress, the
\* description is not empty and the recipient is not the null account.
C3_NeverWithdrawsMoreThanBalance ==
    \A w \in WithdrawCalls :
        CanWithdraw(w.caller) /\ ExceedsBalance(w) =>
            LET res == WithdrawCheck(w.caller, w.description, w.recipient, w.amount) IN
            /\ res # "ok"
            /\ (w.caller = dm.owner /\ ~dm.entered /\ w.description # ""
                    /\ w.recipient # NULL)
                  => res = "InsufficientBalance"

\* the administrator asks for an amount the ledger once held but has spent
C3_Witness ==
    /\ frame.op = "none"
    /\ dm.totalDonationsReceived = MIN_DONATION_FOR_NFT
    /\ dm.totalExpensesLogged = 1
    /\ WithdrawCheck("admin", "Sewa", "alice", MIN_DONATION_FOR_NFT)
          = "InsufficientBalance"

\* a positive donation to an existing, active campaign whose deadline has passed
PastDeadline(c) ==
    /\ dm.campaigns[c].id # 0
    /\ dm.campaigns[c].isActive
    /\ dm.campaigns[c].deadline < now

\* the accounts that can call donate with this value in the current state
CanDonate(caller, amount) ==
    AnyCaller(caller) \/ (StipendCaller(caller) /\ amount = 0)

\* C10 as stated: donate with a positive amount on an existing, active
\* campaign whose deadline is earlier than now always fails with DeadlinePassed.
C10_AlwaysDeadlinePassed ==
    \A caller \in Accounts, c \in CampaignIdInputs, amount \in AmountInputs \ {0} :
        CanDonate(caller, amount) /\ PastDeadline(c) =>
            DonateCheck(c, amount) = "DeadlinePassed"

\* C10 (amended): such a donate never succeeds; it fails with DeadlinePassed
\* unless it is made while a donate or withdrawWithLog of the ledger is in
\* progress, when it fails with Reentrant.
C10_PastDeadlineRejected ==
    \A caller \in Accounts, c \in CampaignIdInputs, amount \in AmountInputs \ {0} :
        CanDonate(caller, amount) /\ PastDeadline(c) =>
            DonateCheck(c, amount) = IF dm.entered THEN "Reentrant" ELSE "DeadlinePassed"

\* an active campaign that received a donation before its deadline passed
C10_Witness ==
    /\ frame.op = "none"
    /\ \E c \in CampaignIdInputs :
         /\ PastDeadline(c)
         /\ dm.campaigns[c].totalRaised > 0
         /\ DonateCheck(c, 1) = "DeadlinePassed"

\* ----------------------------------------------------------------- ballot
UsedTokens == {t \in TokenIdInputs : voting.tokenUsed[t]}

\* the Voted events emitted for a campaign
VotedFor(campaignId) ==
    SelectSeq(voting.voted, LAMBDA e : e.campaignId = campaignId)

\* the state of Voting that is committed: inside a transaction, its snapshot
CommittedVoting == IF frame.op = "none" THEN voting ELSE frame.snap.voting

\* C4: the used flag of a certificate is monotone: once true it stays true,
\* in the committed states and inside a transaction, the only step that clears
\* a flag being the rollback of the transaction that set it.
C4_UsedFlagMonotone ==
    [][\A t \in TokenIdInputs :
         /\ CommittedVoting.tokenUsed[t] => CommittedVoting'.tokenUsed[t]
         /\ voting.tokenUsed[t] => voting'.tokenUsed[t] \/ Rollback]_vars

\* a used certificate that has since been transferred, a second one unused
C4_Witness ==
    /\ frame.op = "none"
    /\ \E t \in TokenIdInputs :
         /\ voting.tokenUsed[t]
         /\ ownerOf(t) # nft.donationDetails[t].donor
    /\ \E t \in TokenIdInputs : ownerOf(t) # NULL /\ ~voting.tokenUsed[t]

\* C5: for every campaign id c, getVotes(c) equals the number of certificates
\* whose used flag is true and whose stored campaignId is c.
C5_TallyIsCountOfUsed ==
    \A c \in CampaignIdInputs :
        getVotes(c) = Cardinality({t \in UsedTokens :
                                     nft.donationDetails[t].campaignId = c})

\* C6: a certificate yields at most one successful vote: no two Voted events
\* name the same token, every tally is the number of Voted events of its
\* campaign, and once a token is used every vote with it, by any caller for
\* any campaign, fails with AlreadyUsed or NotOwner.
C6_OneVotePerCertificate ==
    /\ \A i, j \in DOMAIN voting.voted :
         i # j => voting.voted[i].tokenId # voting.voted[j].tokenId
    /\ \A c \in CampaignIdInputs : getVotes(c) = Len(VotedFor(c))
    /\ \A t \in UsedTokens, caller \in Accounts, c \in CampaignIdInputs :
         AnyCaller(caller) =>
            VoteCheck(caller, c, t) \in {"AlreadyUsed", "NotOwner"}

\* a certificate was used by its donor and then given away: neither can vote
C6_Witness ==
    /\ frame.op = "none"
    /\ \E i \in DOMAIN voting.voted :
         LET e == voting.voted[i] IN
         /\ ownerOf(e.tokenId) # e.voter
         /\ VoteCheck(ownerOf(e.tokenId), e.campaignId, e.tokenId) = "AlreadyUsed"
         /\ VoteCheck(e.voter, e.campaignId, e.tokenId) = "NotOwner"
         /\ getVotes(e.campaignId) = 1

\* the donations that minted a certificate, in the order of their token ids
\* (the ledger is the only minter)
MintedDonations == SelectSeq(dm.allDonations, LAMBDA d : d.nftMinted)

\* the campaign of the donate call that minted a token
DonateCampaignOf(tokenId) ==
    IF frame.op = "donate" /\ frame.tokenId = tokenId
    THEN frame.args[1]
    ELSE MintedDonations[tokenId].campaignId

\* C7: every successful vote(campaignId, tokenId) has campaignId equal to the
\* campaign of the donate call that minted tokenId.
C7_VoteOnlyForMintingCampaign ==
    frame.op = "none" =>
        \A i \in DOMAIN voting.voted :
            voting.voted[i].campaignId = DonateCampaignOf(voting.voted[i].tokenId)

\* C8: vote by the current owner of an unused certificate whose stored
\* campaignId differs from the campaignId voted for fails with CampaignMismatch
\* (the call reverts: no used flag and no tally changes).
C8_MismatchRejected ==
    \A caller \in Accounts, c \in CampaignIdInputs, t \in TokenIdInputs :
        (/\ AnyCaller(caller)
         /\ ownerOf(t) = caller
         /\ ~hasVoted(t)
         /\ nft.donationDetails[t].campaignId # c)
        => VoteCheck(caller, c, t) = "CampaignMismatch"

\* a certificate of campaign 1 whose owner could vote for campaign 1 and tries
\* campaign 2, which exists
C8_Witness ==
    /\ frame.op = "none"
    /\ dm.campaigns[2].id = 2
    /\ \E t \in TokenIdInputs :
         /\ ownerOf(t) # NULL
         /\ nft.donationDetails[t].campaignId = 1
         /\ VoteCheck(ownerOf(t), 1, t) = "ok"
         /\ VoteCheck(ownerOf(t), 2, t) = "CampaignMismatch"

\* C9: vote succeeds only for the current owner of the token: every Voted
\* event is emitted for the account that owns the token at that moment; a call
\* by any other account, or for an unminted id, fails with NotOwner or NotFound;
\* and the current owner of an unused certificate, the donor or a later owner,
\* can vote with it.
C9_OnlyTheOwnerVotes ==
    /\ [](\A caller \in Accounts, c \in CampaignIdInputs, t \in TokenIdInputs :
            AnyCaller(caller) =>
              /\ VoteCheck(caller, c, t) = "ok" => ownerOf(t) = caller
              /\ ownerOf(t) # caller =>
                    VoteCheck(caller, c, t) \in {"NotOwner", "NotFound"})
    /\ [](\A t \in TokenIdInputs :
            ownerOf(t) # NULL /\ ~hasVoted(t) /\ AnyCaller(ownerOf(t)) =>
               VoteCheck(ownerOf(t), nft.donationDetails[t].campaignId, t) = "ok")
    /\ [][Len(voting'.voted) = Len(voting.voted) + 1 =>
            LET e == voting'.voted[Len(voting'.voted)] IN
            ownerOf(e.tokenId) = e.voter]_vars

\* a certificate given away by its donor and then used by the new owner
C9_Witness ==
    /\ frame.op = "none"
    /\ \E i \in DOMAIN voting.voted :
         LET e == voting.voted[i] IN
         /\ e.voter # nft.donationDetails[e.tokenId].donor
         /\ ownerOf(e.tokenId) = e.voter
         /\ VoteCheck(nft.donationDetails[e.tokenId].donor, e.campaignId, e.tokenId)
               = "NotOwner"

\* ----------------------------------------------------- ledger, second part
\* the condition under which the specification calls a campaign donable
Donable(c) ==
    dm.campaigns[c].isActive /\ now <= dm.campaigns[c].deadline

\* the Donation appended by the step
NewDonation == dm'.allDonations[Len(dm'.allDonations)]

\* C11 as stated: a donate with amount > 0 on an existing campaign is accepted
\* exactly when the campaign is active and now <= deadline.
C11_DonableIffActiveAndInTime ==
    \A caller \in Accounts, c \in CampaignIdInputs, amount \in AmountInputs \ {0} :
        CanDonate(caller, amount) /\ dm.campaigns[c].id # 0 =>
            (DonateCheck(c, amount) = "ok" <=> Donable(c))

\* C11 (amended): a donate with amount > 0 on an existing campaign, made while
\* no donate or withdrawWithLog of the ledger is in progress, passes the checks
\* of donate exactly when the campaign is active and now <= deadline (so at
\* now = deadline it passes, on a deactivated campaign it does not, and on a
\* campaign activated again before its deadline it does); and every Donation
\* recorded is for a campaign that was active and not past its deadline.
C11_DonableOutsideLedgerCall ==
    /\ [](\A caller \in Accounts, c \in CampaignIdInputs, amount \in AmountInputs \ {0} :
            CanDonate(caller, amount) /\ dm.campaigns[c].id # 0 /\ ~dm.entered =>
                (DonateCheck(c, amount) = "ok" <=> Donable(c)))
    /\ [][Len(dm'.allDonations) = Len(dm.allDonations) + 1 =>
            /\ dm.campaigns[NewDonation.campaignId].id # 0
            /\ Donable(NewDonation.campaignId)
            /\ NewDonation.amount > 0]_vars

\* a donation was accepted at the very time of the deadline by a campaign that
\* has since been deactivated and, its deadline not passed, rejects donations
C11_Witness ==
    /\ frame.op = "none"
    /\ \E i \in DOMAIN dm.allDonations :
         LET d == dm.allDonations[i] IN
         /\ d.timestamp = dm.campaigns[d.campaignId].deadline
         /\ ~dm.campaigns[d.campaignId].isActive
         /\ now = d.timestamp
         /\ DonateCheck(d.campaignId, 1) = "CampaignInactive"

\* C12: while a donate call is in progress (its mint has handed control to the
\* donor's receipt callback) every donate call fails with Reentrant, and no
\* Donation is recorded inside the outer donation.
C12_NestedDonateReentrant ==
    /\ [](frame.op = "donate" =>
            /\ dm.entered
            /\ \A c \in CampaignIdInputs, amount \in AmountInputs :
                  DonateCheck(c, amount) = "Reentrant")
    /\ [][frame.op = "donate" =>
            Len(dm'.allDonations) <= Len(dm.allDonations)]_vars

\* the receipt callback of a donation runs while a campaign is donable and
\* the ledger could record one more donation
C12_Witness ==
    /\ frame.op = "donate"
    /\ Len(dm.allDonations) < MaxDonations
    /\ \E c \in CampaignIdInputs : dm.campaigns[c].id # 0 /\ Donable(c)

\* C13: when the transfer of withdrawWithLog hands control to the recipient,
\* the Expense is already the last record of the audit log and
\* totalExpensesLogged already includes its amount.
C13_ExpenseLoggedBeforeTransfer ==
    frame.op = "withdraw" =>
        LET before == frame.snap.dm
            amount == frame.args[3]
        IN
        /\ Len(dm.allExpenses) = Len(before.allExpenses) + 1
        /\ dm.allExpenses[Len(dm.allExpenses)].id = before.nextExpenseId
        /\ dm.allExpenses[Len(dm.allExpenses)].description = frame.args[1]
        /\ dm.allExpenses[Len(dm.allExpenses)].recipient = frame.actor
        /\ dm.allExpenses[Len(dm.allExpenses)].amount = amount
        /\ dm.totalExpensesLogged = before.totalExpensesLogged + amount
        /\ dm.balance = before.balance - amount

\* a contract recipient is running its receive function
C13_Witness ==
    /\ frame.op = "withdraw"
    /\ hasCode(frame.actor)
    /\ dm.totalExpensesLogged = 1

\* C15: a step that records a Donation mints one certificate, to the donor,
\* iff amount >= MIN_DONATION_FOR_NFT and the ledger's registry is configured,
\* and nothing otherwise; when the donation completes its nftMinted flag is
\* true iff the mint happened; and in the committed states the flagged
\* donations are as many as the certificates and none is below the minimum.
C15_MintIffAtLeastMinimum ==
    /\ [][Len(dm'.allDonations) = Len(dm.allDonations) + 1 =>
            LET due == NewDonation.amount >= MIN_DONATION_FOR_NFT
                          /\ dm.nftContract # NULL
            IN
            /\ nft'.nextTokenId = nft.nextTokenId + (IF due THEN 1 ELSE 0)
            /\ due => nft'.owners[nft.nextTokenId] = NewDonation.donor
            /\ ~due => nft' = nft /\ ~NewDonation.nftMinted /\ frame'.op = "none"
            /\ due /\ frame'.op = "none" =>
                  /\ NewDonation.nftMinted
                  /\ nft'.donationDetails[nft.nextTokenId].donor = NewDonation.donor
                  /\ nft'.donationDetails[nft.nextTokenId].amount = NewDonation.amount
            /\ due /\ frame'.op # "none" =>
                  /\ frame'.op = "donate"
                  /\ frame'.donationIndex = Len(dm.allDonations)
                  /\ frame'.tokenId = nft.nextTokenId]_vars
    /\ [][frame.op = "donate" /\ frame'.op = "none" /\ ~Rollback =>
            /\ dm'.allDonations[frame.donationIndex + 1].nftMinted
            /\ nft'.donationDetails[frame.tokenId].donor = frame.actor
            /\ nft'.nextTokenId = nft.nextTokenId]_vars
    /\ [](frame.op = "none" =>
            /\ Len(MintedDonations) = totalSupply
            /\ \A i \in DOMAIN dm.allDonations :
                 dm.allDonations[i].nftMinted =>
                    dm.allDonations[i].amount >= MIN_DONATION_FOR_NFT)

\* two donations of the minimum: one made while no registry was configured,
\* without a certificate, and one with its certificate
C15_Witness ==
    /\ frame.op = "none"
    /\ Len(dm.allDonations) = 2
    /\ dm.allDonations[1].amount = MIN_DONATION_FOR_NFT
    /\ ~dm.allDonations[1].nftMinted
    /\ dm.allDonations[2].amount = MIN_DONATION_FOR_NFT
    /\ dm.allDonations[2].nftMinted
    /\ totalSupply = 1
    /\ ownerOf(1) = dm.allDonations[2].donor

\* -------------------------------------------------------------- campaigns
\* the calls of createCampaign the claims speak of
CreateCalls ==
    [title : {"", "Banjir", LongTitle}, description : {"", "Bantuan"},
     targetAmount : {0, 5}, deadline : 0 .. (MaxTime + 1)]

\* the inputs the specification calls invalid
InvalidCampaignInput(c) ==
    \/ c.title = ""
    \/ Len(c.title) > MAX_TITLE_LENGTH
    \/ c.description = ""
    \/ c.targetAmount = 0
    \/ c.deadline <= now

\* C18: createCampaign called by an account that is not the administrator
\* fails with Unauthorized whatever its arguments, and consumes no campaign id:
\* the next id is always one more than the number of campaigns created, and it
\* changes only in a step that stores a campaign under it.
C18_UnauthorizedConsumesNoId ==
    /\ [](\A caller \in Accounts, c \in CreateCalls :
            AnyCaller(caller) /\ caller # dm.owner =>
               CreateCampaignCheck(caller, c.title, c.description, c.targetAmount,
                                   c.deadline) = "Unauthorized")
    /\ [](dm.nextCampaignId = Len(dm.campaignIds) + 1)
    /\ [][dm'.nextCampaignId # dm.nextCampaignId =>
            /\ dm'.nextCampaignId = dm.nextCampaignId + 1
            /\ dm'.campaignIds = Append(dm.campaignIds, dm.nextCampaignId)
            /\ dm'.campaigns[dm.nextCampaignId].id = dm.nextCampaignId
            /\ dm'.campaigns[dm.nextCampaignId].creator = dm.owner]_vars

\* one campaign exists, a valid call by alice is refused, and the next
\* creation will get id 2
C18_Witness ==
    /\ frame.op = "none"
    /\ dm.campaignIds = <<1>>
    /\ dm.nextCampaignId = 2
    /\ CreateCampaignCheck("alice", "Banjir", "Bantuan", 5, now + 1) = "Unauthorized"
    /\ CreateCampaignCheck("admin", "Banjir", "Bantuan", 5, now + 1) = "ok"

\* C19: createCampaign by the administrator fails with InvalidInput if the
\* title is empty or longer than 100, the description is empty, the target is
\* 0 or the deadline is not after the current time, and passes otherwise; a
\* step that creates a campaign stores it under the next id with totalRaised 0,
\* isActive true and creator the caller, and leaves the other campaigns alone.
C19_InvalidInputOrStored ==
    /\ [](\A c \in CreateCalls :
            AnyCaller(dm.owner) =>
               CreateCampaignCheck(dm.owner, c.title, c.description, c.targetAmount,
                                   c.deadline)
                  = IF InvalidCampaignInput(c) THEN "InvalidInput" ELSE "ok")
    /\ [][Len(dm'.campaignIds) = Len(dm.campaignIds) + 1 =>
            LET id == dm.nextCampaignId
                c  == dm'.campaigns[id]
            IN
            /\ dm.campaigns[id] = EmptyCampaign
            /\ c.id = id
            /\ c.totalRaised = 0
            /\ c.isActive
            /\ c.creator = dm.owner
            /\ c.createdAt = now
            /\ ~InvalidCampaignInput(c)
            /\ dm'.campaignIds[Len(dm'.campaignIds)] = id
            /\ \A other \in (0 .. MaxCampaigns) \ {id} :
                  dm'.campaigns[other] = dm.campaigns[other]]_vars

\* a campaign was created in the current block, and a call with the current
\* time as deadline is refused
C19_Witness ==
    /\ frame.op = "none"
    /\ now > 0
    /\ \E id \in 1 .. MaxCampaigns :
         /\ dm.campaigns[id].id = id
         /\ dm.campaigns[id].createdAt = now
         /\ dm.campaigns[id].deadline = now + 1
         /\ dm.campaigns[id].creator = "admin"
    /\ CreateCampaignCheck("admin", "Banjir", "Bantuan", 5, now) = "InvalidInput"
    /\ CreateCampaignCheck("admin", LongTitle, "Bantuan", 5, now + 1) = "InvalidInput"

\* C20: the existing campaign ids are exactly 1 .. n, n the number of
\* campaigns created, in the order of creation; no campaign is deleted, and
\* the id, deadline, target and creator of a campaign never change.
C20_CampaignIdsSequential ==
    /\ [](/\ \A i \in DOMAIN dm.campaignIds : dm.campaignIds[i] = i
          /\ \A c \in 0 .. MaxCampaigns :
               dm.campaigns[c].id = IF c \in 1 .. Len(dm.campaignIds) THEN c ELSE 0
          /\ dm.nextCampaignId > Len(dm.campaignIds))
    /\ [][/\ Len(dm'.campaignIds) >= Len(dm.campaignIds)
          /\ \A c \in 0 .. MaxCampaigns :
               dm.campaigns[c].id # 0 =>
                  /\ dm'.campaigns[c].id = dm.campaigns[c].id
                  /\ dm'.campaigns[c].deadline = dm.campaigns[c].deadline
                  /\ dm'.campaigns[c].targetAmount = dm.campaigns[c].targetAmount
                  /\ dm'.campaigns[c].creator = dm.campaigns[c].creator]_vars

\* two campaigns created at different times; the first has received a
\* donation, is past its deadline and has been deactivated
C20_Witness ==
    /\ frame.op = "none"
    /\ dm.campaignIds = <<1, 2>>
    /\ dm.campaigns[1].createdAt < dm.campaigns[2].createdAt
    /\ ~dm.campaigns[1].isActive
    /\ dm.campaigns[1].totalRaised > 0
    /\ dm.campaigns[1].deadline < now

\* --------------------------------------------------------------- registry
\* the certificates minted so far
Minted == {t \in TokenIdInputs : ownerOf(t) # NULL}

\* C14: mintCertificate called by anyone who is not the configured minter, the
\* registry's owner included, fails with Unauthorized, and the configured
\* minter passes the check; the next token id grows only in a donate of the
\* ledger while the ledger is the minter, or in a direct call while an account
\* is the minter.
C14_OnlyMinterMints ==
    /\ [](\A caller \in Accounts \cup {DM}, donor \in Accounts \cup {NULL} :
            caller # nft.donationManager => MintCheck(caller, donor) = "Unauthorized")
    /\ [](\A donor \in Accounts :
            nft.donationManager # NULL => MintCheck(nft.donationManager, donor) = "ok")
    /\ [][nft'.nextTokenId > nft.nextTokenId =>
            \/ /\ nft.donationManager = DM
               /\ Len(dm'.allDonations) = Len(dm.allDonations) + 1
               /\ frame'.op # "mint"
            \/ /\ nft.donationManager \in Accounts
               /\ dm' = dm
               /\ frame'.op # "donate"
               /\ frame'.op = "mint" => frame'.caller = nft.donationManager]_vars

\* alice is the minter and has minted a certificate by a direct call; the
\* registry's owner and the ledger are turned away
C14_Witness ==
    /\ frame.op = "none"
    /\ nft.donationManager = "alice"
    /\ nft.owner = "admin"
    /\ \E t \in Minted : nft.donationDetails[t].campaignTitle = "direct"
    /\ MintCheck("admin", "alice") = "Unauthorized"
    /\ MintCheck(DM, "alice") = "Unauthorized"
    /\ MintCheck("alice", "alice") = "ok"

\* the tier that the specification gives an amount when the draw is not special
TierByAmount(amount) ==
    IF amount >= GOLD_THRESHOLD THEN "Gold"
    ELSE IF SILVER_THRESHOLD <= amount /\ amount < GOLD_THRESHOLD THEN "Silver"
    ELSE "Bronze"

TierRank(tier) == IF tier = "Bronze" THEN 1 ELSE IF tier = "Silver" THEN 2 ELSE 3

\* C16: for every amount a draw below 500 gives Special and a draw from 500
\* gives the tier of the amount (Gold from the gold threshold, Silver from the
\* silver threshold, else Bronze); a certificate is stored with the tier of
\* one of the draws; and among the certificates that are not Special the tier
\* is a function of the amount that never decreases as the amount grows.
C16_TierDrawFirstThenAmount ==
    /\ [](\A amount \in 0 .. (GOLD_THRESHOLD + 1), random \in TierDraws :
            determineTier(amount, random)
               = IF random < 500 THEN "Special" ELSE TierByAmount(amount))
    /\ [](\A t \in Minted :
            nft.donationDetails[t].donor # NULL =>
               nft.donationDetails[t].tier
                  \in {"Special", TierByAmount(nft.donationDetails[t].amount)})
    /\ [](\A t1, t2 \in Minted :
            LET d1 == nft.donationDetails[t1]
                d2 == nft.donationDetails[t2]
            IN
            (d1.donor # NULL /\ d2.donor # NULL
               /\ d1.tier # "Special" /\ d2.tier # "Special"
               /\ d1.amount <= d2.amount)
            => TierRank(d1.tier) <= TierRank(d2.tier))
    /\ [][\A t \in TokenIdInputs :
            nft'.donationDetails[t] # nft.donationDetails[t] /\ ~Rollback =>
               \E random \in TierDraws :
                  nft'.donationDetails[t].tier
                     = determineTier(nft'.donationDetails[t].amount, random)]_vars

\* a certificate of the gold threshold that drew Special, and one of the
\* silver threshold that did not
C16_Witness ==
    /\ frame.op = "none"
    /\ \E t1, t2 \in Minted :
         /\ nft.donationDetails[t1].amount = GOLD_THRESHOLD
         /\ nft.donationDetails[t1].tier = "Special"
         /\ nft.donationDetails[t2].amount = SILVER_THRESHOLD
         /\ nft.donationDetails[t2].tier = "Silver"

\* C17: the token ids issued are exactly 1 .. totalSupply: the next id is
\* issued by a step that gives it its first owner, no issued token loses its
\* owner or has its id taken back other than by the rollback of the call that
\* was minting it, and in the committed states every issued token has its
\* stored detail and is listed once among its donor's tokens.
C17_TokenIdsSequential ==
    /\ [](/\ nft.nextTokenId >= 1
          /\ Minted = 1 .. totalSupply
          /\ Cardinality(Minted) = totalSupply)
    /\ [](frame.op = "none" =>
            \A t \in TokenIdInputs :
               /\ nft.donationDetails[t].donor # NULL <=> t \in Minted
               /\ t \in Minted =>
                     Len(SelectSeq(nft.donorTokens[nft.donationDetails[t].donor],
                                   LAMBDA x : x = t)) = 1)
    /\ [][nft'.nextTokenId # nft.nextTokenId =>
            \/ /\ nft'.nextTokenId = nft.nextTokenId + 1
               /\ ownerOf(nft.nextTokenId) = NULL
               /\ nft'.owners[nft.nextTokenId] # NULL
               /\ frame'.op # "none" => frame'.tokenId = nft.nextTokenId
            \/ /\ Rollback
               /\ nft'.nextTokenId = nft.nextTokenId - 1
               /\ frame.tokenId = nft'.nextTokenId]_vars
    /\ [][\A t \in Minted :
            nft'.owners[t] # NULL \/ (Rollback /\ t = frame.tokenId)]_vars

\* certificate 1 minted by a donation through the ledger, certificate 2 by a
\* direct call of a later minter
C17_Witness ==
    /\ frame.op = "none"
    /\ totalSupply = 2
    /\ nft.donationDetails[1].campaignTitle = "Banjir"
    /\ nft.donationDetails[2].campaignTitle = "direct"
    /\ dm.allDonations[1].nftMinted

\* --------------------------------------------------------------- totals
\* the state of the ledger that is committed: inside a transaction, its snapshot
CommittedDM == IF frame.op = "none" THEN dm ELSE frame.snap.dm

RECURSIVE SumRaised(_)
\* the sum of totalRaised over the campaigns 0 .. c
SumRaised(c) ==
    dm.campaigns[c].totalRaised + (IF c = 0 THEN 0 ELSE SumRaised(c - 1))

\* C26: totalDonationsReceived equals the sum of the amounts of all Donation
\* records and the sum of totalRaised over all campaigns; in the committed
\* states neither a campaign's totalRaised nor totalDonationsReceived ever
\* decreases, and within a transaction only its rollback takes them back.
C26_ReceivedIsSumAndNeverDecreases ==
    /\ [](/\ dm.totalDonationsReceived = SumAmounts(dm.allDonations)
          /\ dm.totalDonationsReceived = SumRaised(MaxCampaigns))
    /\ [][/\ CommittedDM'.totalDonationsReceived >= CommittedDM.totalDonationsReceived
          /\ \A c \in CampaignIdInputs :
               CommittedDM'.campaigns[c].totalRaised
                  >= CommittedDM.campaigns[c].totalRaised
          /\ ~Rollback =>
               /\ dm'.totalDonationsReceived >= dm.totalDonationsReceived
               /\ \A c \in CampaignIdInputs :
                    dm'.campaigns[c].totalRaised >= dm.campaigns[c].totalRaised]_vars

\* two campaigns have received donations and part of the money has been
\* withdrawn: the totals still count all of it
C26_Witness ==
    /\ frame.op = "none"
    /\ dm.campaigns[1].totalRaised > 0
    /\ dm.campaigns[2].totalRaised > 0
    /\ dm.totalExpensesLogged > 0
    /\ dm.totalDonationsReceived = dm.campaigns[1].totalRaised + dm.campaigns[2].totalRaised
    /\ dm.balance < dm.totalDonationsReceived

\* the Expense appended by the step
NewExpense == dm'.allExpenses[Len(dm'.allExpenses)]

\* C27: the i-th Expense has id i and a positive amount, the next id is one
\* more than their number, and totalExpensesLogged is the sum of their amounts;
\* a step appends at most one Expense, with an amount that the ledger held just
\* before and that leaves the ledger in that step; the Expenses of the committed
\* states never change, the only record ever removed being that of a withdrawal
\* that is rolled back.
C27_OneExpensePerWithdrawal ==
    /\ [](/\ \A i \in DOMAIN dm.allExpenses :
               dm.allExpenses[i].id = i /\ dm.allExpenses[i].amount > 0
          /\ dm.nextExpenseId = Len(dm.allExpenses) + 1
          /\ dm.totalExpensesLogged = SumAmounts(dm.allExpenses))
    /\ [][\/ dm'.allExpenses = dm.allExpenses
          \/ /\ Len(dm'.allExpenses) = Len(dm.allExpenses) + 1
             /\ dm'.allExpenses = Append(dm.allExpenses, NewExpense)
             /\ NewExpense.amount <= dm.balance
             /\ NewExpense.amount
                   <= dm.totalDonationsReceived - dm.totalExpensesLogged
             /\ WithdrawalStep
          \/ /\ Rollback
             /\ frame.op = "withdraw"
             /\ Append(dm'.allExpenses, dm.allExpenses[Len(dm.allExpenses)])
                   = dm.allExpenses]_vars
    /\ [][\A i \in DOMAIN CommittedDM.allExpenses :
            /\ i \in DOMAIN dm'.allExpenses
            /\ dm'.allExpenses[i] = CommittedDM.allExpenses[i]]_vars

\* two withdrawals, to different recipients, the second taking all that the
\* first had left
C27_Witness ==
    /\ frame.op = "none"
    /\ Len(dm.allExpenses) = 2
    /\ dm.allExpenses[1].recipient # dm.allExpenses[2].recipient
    /\ dm.allExpenses[1].amount # dm.allExpenses[2].amount
    /\ dm.totalDonationsReceived > 0
    /\ dm.balance = 0

\* ------------------------------------------------------ failures and frames
\* C21: a donate whose mint fails leaves nothing: no Donation is recorded for
\* a donation due a certificate while the ledger is not the registry's minter;
\* the state a donate is rolled back to is the state before the call, with no
\* record, total or token of it; and a receipt callback ends either with the
\* donation completed and flagged or with the ledger, the registry and the
\* ballot exactly as they were before the call.
C21_FailedMintLeavesNothing ==
    /\ [][Len(dm'.allDonations) > Len(dm.allDonations)
            /\ NewDonation.amount >= MIN_DONATION_FOR_NFT
            /\ dm.nftContract # NULL
          => nft.donationManager = DM]_vars
    /\ [][frame.op = "none" /\ frame'.op = "donate" =>
            frame'.snap = [dm |-> dm, nft |-> nft, voting |-> voting]]_vars
    /\ [](frame.op = "donate" =>
            /\ Len(frame.snap.dm.allDonations) = frame.donationIndex
            /\ frame.snap.nft.nextTokenId = frame.tokenId
            /\ ~frame.snap.dm.entered)
    /\ [][frame.op = "donate" /\ frame'.op = "none" =>
            \/ /\ dm' = frame.snap.dm
               /\ nft' = frame.snap.nft
               /\ voting' = frame.snap.voting
            \/ /\ Len(dm'.allDonations) = Len(dm.allDonations)
               /\ dm'.allDonations[frame.donationIndex + 1].nftMinted
               /\ nft'.donationDetails[frame.tokenId].donor = frame.actor]_vars

\* the first donation of a contract donor is in its receipt callback: record,
\* totals, unique-donor entry and balance are written and may still be undone
C21_Witness ==
    /\ frame.op = "donate"
    /\ ~frame.snap.dm.hasDonated[frame.actor]
    /\ dm.hasDonated[frame.actor]
    /\ Len(dm.uniqueDonors) = Len(frame.snap.dm.uniqueDonors) + 1
    /\ dm.balance = frame.snap.dm.balance + MIN_DONATION_FOR_NFT
    /\ dm.donorTotalAmount[frame.actor] = MIN_DONATION_FOR_NFT
    /\ frame.snap.dm.totalDonationsReceived > 0

\* C22: updateCampaignStatus fails with Unauthorized for a caller who is not
\* the administrator and with NotFound for the administrator and an unknown
\* id, and passes otherwise; a step that changes the active flag of an
\* existing campaign changes nothing else in the ledger or anywhere.
C22_OnlyTheFlagChanges ==
    /\ [](\A caller \in Accounts, c \in CampaignIdInputs :
            AnyCaller(caller) =>
               UpdateCampaignStatusCheck(caller, c)
                  = IF caller # dm.owner THEN "Unauthorized"
                    ELSE IF c \notin 1 .. Len(dm.campaignIds) THEN "NotFound"
                    ELSE "ok")
    /\ [][\A c \in CampaignIdInputs :
            (dm.campaigns[c].id # 0
               /\ dm'.campaigns[c].isActive # dm.campaigns[c].isActive)
            => /\ dm' = [dm EXCEPT !.campaigns[c].isActive = ~dm.campaigns[c].isActive]
               /\ UNCHANGED <<now, nft, voting, frame>>]_vars

\* a campaign that has raised money is deactivated and keeps its amount, the
\* other campaign is active; alice and an unknown id are turned away
C22_Witness ==
    /\ frame.op = "none"
    /\ ~dm.campaigns[1].isActive
    /\ dm.campaigns[1].totalRaised = 1 + MIN_DONATION_FOR_NFT
    /\ dm.campaigns[2].isActive
    /\ UpdateCampaignStatusCheck("alice", 1) = "Unauthorized"
    /\ UpdateCampaignStatusCheck("admin", 0) = "NotFound"
    /\ UpdateCampaignStatusCheck("admin", 1) = "ok"

\* C28: the i-th Donation has id i, a positive amount and a donor under whom
\* its index is listed; a step records at most one Donation, after the others,
\* with the contract donor whose callback it starts as its donor; and the
\* Donations of the committed states never change in any field, the only
\* record ever removed being that of a donate that is rolled back.
C28_OneDonationPerDonate ==
    /\ [](\A i \in DOMAIN dm.allDonations :
            LET d == dm.allDonations[i] IN
            /\ d.id = i
            /\ d.amount > 0
            /\ d.donor \in Accounts
            /\ \E k \in DOMAIN dm.donorDonations[d.donor] :
                  dm.donorDonations[d.donor][k] = i - 1)
    /\ [][\/ Len(dm'.allDonations) = Len(dm.allDonations)
          \/ /\ Len(dm'.allDonations) = Len(dm.allDonations) + 1
             /\ SubSeq(dm'.allDonations, 1, Len(dm.allDonations)) = dm.allDonations
             /\ frame'.op = "donate" => NewDonation.donor = frame'.caller
          \/ /\ Rollback
             /\ frame.op = "donate"
             /\ Len(dm'.allDonations) = Len(dm.allDonations) - 1]_vars
    /\ [][\A i \in DOMAIN CommittedDM.allDonations :
            /\ i \in DOMAIN dm'.allDonations
            /\ dm'.allDonations[i] = CommittedDM.allDonations[i]]_vars

\* a donation below the minimum by alice, then one with a certificate by the
\* contract donor, completed
C28_Witness ==
    /\ frame.op = "none"
    /\ Len(dm.allDonations) = 2
    /\ dm.allDonations[1].donor = "alice"
    /\ ~dm.allDonations[1].nftMinted
    /\ dm.allDonations[2].donor = "mallory"
    /\ dm.allDonations[2].nftMinted

\* ------------------------------------------------- registry, second part
\* C25: setDonationManager fails with Unauthorized for a caller who is not the
\* registry's owner and with InvalidInput for the null account, and passes
\* otherwise; a step that changes the minter sets it to an account that is not
\* null, changes nothing else in the registry, and leaves the new minter as
\* the only caller that passes the check of mintCertificate; and while the
\* minter has never been set no certificate exists and nobody passes it.
C25_MinterSetOnlyByOwner ==
    /\ [](\A caller \in Accounts, addr \in {NULL, DM} \cup Accounts :
            AnyCaller(caller) =>
               SetDonationManagerCheck(caller, addr)
                  = IF caller # nft.owner THEN "Unauthorized"
                    ELSE IF addr = NULL THEN "InvalidInput"
                    ELSE "ok")
    /\ [][nft'.donationManager # nft.donationManager =>
            /\ nft'.donationManager # NULL
            /\ nft' = [nft EXCEPT !.donationManager = nft'.donationManager]
            /\ \A sender \in Accounts \cup {DM}, donor \in Accounts :
                  (MintCheck(sender, donor))'
                     = IF sender = nft'.donationManager THEN "ok" ELSE "Unauthorized"
            /\ nft.donationManager \in (Accounts \cup {DM, NULL}) \ {nft'.donationManager}]_vars
    /\ [](nft.donationManager = NULL =>
            /\ totalSupply = 0
            /\ \A sender \in Accounts \cup {DM}, donor \in Accounts :
                  MintCheck(sender, donor) = "Unauthorized")

\* the ledger minted a certificate as the minter and has since been replaced
\* by alice: the ledger's mint calls are now refused
C25_Witness ==
    /\ frame.op = "none"
    /\ nft.donationManager = "alice"
    /\ \E t \in Minted : nft.donationDetails[t].campaignTitle = "Banjir"
    /\ MintCheck(DM, "alice") = "Unauthorized"
    /\ MintCheck("alice", "mallory") = "ok"
    /\ SetDonationManagerCheck("alice", DM) = "Unauthorized"

\* the state of the registry that is committed: inside a transaction, its snapshot
CommittedNFT == IF frame.op = "none" THEN nft ELSE frame.snap.nft

\* C30: the nonce starts at 0 and equals totalSupply in every state; a step
\* changes it only by adding 1 together with the issue of a token id; in the
\* committed states it never decreases, the only step taking it back being the
\* rollback of the mint that drew with it.
C30_NonceCountsMints ==
    /\ [](nft.randomNonce = totalSupply /\ nft.randomNonce >= 0)
    /\ [][\/ nft'.randomNonce = nft.randomNonce
          \/ /\ nft'.randomNonce = nft.randomNonce + 1
             /\ nft'.nextTokenId = nft.nextTokenId + 1
          \/ /\ Rollback
             /\ nft'.randomNonce = nft.randomNonce - 1]_vars
    /\ [][CommittedNFT'.randomNonce >= CommittedNFT.randomNonce]_vars

\* two certificates minted for two donors with the draws 1 and 2
C30_Witness ==
    /\ frame.op = "none"
    /\ nft.randomNonce = 2
    /\ totalSupply = 2
    /\ nft.donationDetails[1].donor # nft.donationDetails[2].donor
    /\ nft.donationDetails[1].donor # NULL
    /\ nft.donationDetails[2].donor # NULL

\* C29: the stored detail of a certificate whose mint has completed never
\* changes, whatever step follows (mint, vote, transfer, status update, minter
\* or registry reconfiguration, rollback of a later transaction), and its
\* recorded donor keeps the token in the donor's list after a transfer.
C29_ProvenanceFixed ==
    /\ [][\A t \in TokenIdInputs :
            nft.donationDetails[t].donor # NULL =>
               nft'.donationDetails[t] = nft.donationDetails[t]]_vars
    /\ [](frame.op = "none" =>
            \A t \in Minted :
               /\ nft.donationDetails[t].donor \in Accounts
               /\ \E k \in DOMAIN nft.donorTokens[nft.donationDetails[t].donor] :
                     nft.donorTokens[nft.donationDetails[t].donor][k] = t)

\* certificate 1 has been given away and used by its new owner, its campaign
\* deactivated, and certificate 2 minted since
C29_Witness ==
    /\ frame.op = "none"
    /\ totalSupply = 2
    /\ ownerOf(1) # nft.donationDetails[1].donor
    /\ nft.donationDetails[1].donor # NULL
    /\ nft.donationDetails[2].donor # NULL
    /\ hasVoted(1)
    /\ ~dm.campaigns[nft.donationDetails[1].campaignId].isActive

\* ------------------------------------------------------------ leaderboard
\* the place of the i-th unique donor in a list sorted by total, descending,
\* donors of equal total in the order of the unique-donor list
PlaceOf(i) ==
    1 + Cardinality({j \in DOMAIN dm.uniqueDonors :
          \/ dm.donorTotalAmount[dm.uniqueDonors[j]]
                > dm.donorTotalAmount[dm.uniqueDonors[i]]
          \/ /\ dm.donorTotalAmount[dm.uniqueDonors[j]]
                   = dm.donorTotalAmount[dm.uniqueDonors[i]]
             /\ j < i})

\* the donor at place k of that list
DonorAt(k) == dm.uniqueDonors[CHOOSE i \in DOMAIN dm.uniqueDonors : PlaceOf(i) = k]

Min(a, b) == IF a < b THEN a ELSE b

\* C23: getLeaderboard(n) returns the first min(n, number of unique donors)
\* donors, with their totals, of the list of unique donors sorted by total in
\* descending order, donors of equal total in the order of their first donation.
C23_LeaderboardTiesInInsertionOrder ==
    \A count \in 0 .. (MaxHistory + 1) :
        LET n == Min(count, Len(dm.uniqueDonors)) IN
        /\ getLeaderboard(count).addresses = [k \in 1 .. n |-> DonorAt(k)]
        /\ getLeaderboard(count).amounts
              = [k \in 1 .. n |-> dm.donorTotalAmount[DonorAt(k)]]

\* --------------------------------------------------------- administration
\* C24: the owner of each contract is the deployer after construction; a
\* caller who is not the current owner of a contract is refused with
\* Unauthorized by every owner-only function of that contract, the transfer
\* and the renouncement of ownership included; and a step that changes the
\* owner of a contract that has one changes nothing else, while a contract
\* without an owner never gets one.
C24_OnlyTheOwnerAdministers ==
    /\ (dm.owner = "admin" /\ nft.owner = "admin" /\ voting.owner = "admin")
    /\ [](\A caller \in Accounts :
            AnyCaller(caller) \/ StipendCaller(caller) =>
            /\ caller # dm.owner =>
                 /\ \A c \in CreateCalls :
                      CreateCampaignCheck(caller, c.title, c.description,
                                          c.targetAmount, c.deadline) = "Unauthorized"
                 /\ \A id \in CampaignIdInputs :
                      UpdateCampaignStatusCheck(caller, id) = "Unauthorized"
                 /\ \A w \in WithdrawCalls :
                      WithdrawCheck(caller, w.description, w.recipient, w.amount)
                         = "Unauthorized"
                 /\ \A addr \in {NULL, NFT} :
                      SetNFTContractCheck(caller, addr) = "Unauthorized"
            /\ caller # nft.owner =>
                 \A addr \in {NULL, DM} :
                    SetDonationManagerCheck(caller, addr) = "Unauthorized"
            /\ caller # voting.owner =>
                 \A addr \in {NULL, NFT} :
                    VotingSetNFTContractCheck(caller, addr) = "Unauthorized"
            /\ \A c \in Components :
                 caller # Owner(c) =>
                    /\ RenounceOwnershipCheck(c, caller) = "Unauthorized"
                    /\ \A newOwner \in Accounts \cup {NULL} :
                         TransferOwnershipCheck(c, caller, newOwner) = "Unauthorized")
    /\ [][/\ dm'.owner # dm.owner =>
               dm.owner # NULL /\ dm' = [dm EXCEPT !.owner = dm'.owner]
                  /\ UNCHANGED <<now, nft, voting, frame>>
          /\ nft'.owner # nft.owner =>
               nft.owner # NULL /\ nft' = [nft EXCEPT !.owner = nft'.owner]
                  /\ UNCHANGED <<now, dm, voting, frame>>
          /\ voting'.owner # voting.owner =>
               voting.owner # NULL /\ voting' = [voting EXCEPT !.owner = voting'.owner]
                  /\ UNCHANGED <<now, dm, nft, frame>>]_vars

\* the ledger's ownership has passed to alice, who has created a campaign;
\* the deployer is now refused by the ledger and still owns the registry
C24_Witness ==
    /\ frame.op = "none"
    /\ dm.owner = "alice"
    /\ nft.owner = "admin"
    /\ \E c \in 1 .. MaxCampaigns : dm.campaigns[c].creator = "alice"
    /\ \E c \in 1 .. MaxCampaigns : dm.campaigns[c].creator = "admin"
    /\ SetNFTContractCheck("admin", NFT) = "Unauthorized"
    /\ TransferOwnershipCheck(DM, "admin", "admin") = "Unauthorized"
    /\ TransferOwnershipCheck(DM, "alice", "admin") = "ok"

\* ------------------------------------------------------------------ donors
RECURSIVE FirstDonors(_)
\* the donors of a sequence of Donations, each once, in the order of their
\* first donation
FirstDonors(s) ==
    IF s = <<>> THEN <<>>
    ELSE LET earlier == FirstDonors(SubSeq(s, 1, Len(s) - 1))
             donor   == s[Len(s)].donor
         IN  IF \E k \in DOMAIN earlier : earlier[k] = donor
             THEN earlier ELSE Append(earlier, donor)

\* C31: the unique-donor list holds no account twice and is exactly the
\* donors of the Donation records in the order of their first donation; an
\* account is flagged as donor iff it is in the list; and each donor's
\* cumulative total is the sum of the amounts of that donor's donations.
C31_UniqueDonorsAndTotals ==
    /\ \A i, j \in DOMAIN dm.uniqueDonors :
          i # j => dm.uniqueDonors[i] # dm.uniqueDonors[j]
    /\ dm.uniqueDonors = FirstDonors(dm.allDonations)
    /\ \A a \in Accounts :
          /\ dm.hasDonated[a] <=> \E k \in DOMAIN dm.uniqueDonors : dm.uniqueDonors[k] = a
          /\ dm.donorTotalAmount[a]
                = SumAmounts(SelectSeq(dm.allDonations, LAMBDA d : d.donor = a))

\* alice has donated twice, different amounts, and is listed once
C31_Witness ==
    /\ frame.op = "none"
    /\ Len(dm.allDonations) = 2
    /\ dm.allDonations[1].donor = "alice"
    /\ dm.allDonations[2].donor = "alice"
    /\ dm.uniqueDonors = <<"alice">>
    /\ dm.donorTotalAmount["alice"] = 1 + MIN_DONATION_FOR_NFT

\* the failure that the order of the specification gives a donate
DonateOutcome(c, amount) ==
    IF amount = 0 THEN "InvalidInput"
    ELSE IF c \notin 1 .. Len(dm.campaignIds) THEN "NotFound"
    ELSE IF ~dm.campaigns[c].isActive THEN "CampaignInactive"
    ELSE IF now > dm.campaigns[c].deadline THEN "DeadlinePassed"
    ELSE "ok"

\* C34 as stated: every donate reports the first violated condition in the
\* order zero amount, unknown campaign, inactive campaign, passed deadline.
C34_DonateChecksInOrder ==
    \A caller \in Accounts, c \in CampaignIdInputs, amount \in AmountInputs :
        CanDonate(caller, amount) => DonateCheck(c, amount) = DonateOutcome(c, amount)

\* C34 (amended): a donate made while no donate or withdrawWithLog of the
\* ledger is in progress reports the first violated condition in the order
\* zero amount, unknown campaign, inactive campaign, passed deadline; a donate
\* made while one is in progress reports Reentrant before any of them.
C34_DonateChecksInOrderAfterLock ==
    \A caller \in Accounts, c \in CampaignIdInputs, amount \in AmountInputs :
        CanDonate(caller, amount) =>
            DonateCheck(c, amount)
               = IF dm.entered THEN "Reentrant" ELSE DonateOutcome(c, amount)

\* campaign 1 is inactive and past its deadline, and id 2 is unknown
C34_Witness ==
    /\ frame.op = "none"
    /\ dm.campaignIds = <<1>>
    /\ ~dm.campaigns[1].isActive
    /\ now > dm.campaigns[1].deadline
    /\ DonateCheck(1, 1) = "CampaignInactive"
    /\ DonateCheck(2, 0) = "InvalidInput"
    /\ DonateCheck(2, 1) = "NotFound"

\* C36: once the time has passed the deadline of a campaign no donate for it
\* passes the checks, whatever its active flag, and no step changes its
\* deadline, its raised amount or the list of its donations; time never goes
\* backwards.
C36_ClosedForeverAfterDeadline ==
    /\ [](\A c \in 1 .. MaxCampaigns, amount \in AmountInputs :
            dm.campaigns[c].id # 0 /\ now > dm.campaigns[c].deadline =>
               DonateCheck(c, amount) # "ok")
    /\ [][/\ now' >= now
          /\ \A c \in 1 .. MaxCampaigns :
               dm.campaigns[c].id # 0 /\ now > dm.campaigns[c].deadline =>
                  /\ dm'.campaigns[c].deadline = dm.campaigns[c].deadline
                  /\ dm'.campaigns[c].totalRaised = dm.campaigns[c].totalRaised
                  /\ dm'.campaignDonations[c] = dm.campaignDonations[c]
                  /\ DonationsOf(c)' = DonationsOf(c)]_vars

\* campaign 1 has raised money, its deadline has passed and the administrator
\* has deactivated and activated it again; campaign 2 is still open
C36_Witness ==
    /\ frame.op = "none"
    /\ dm.campaignIds = <<1, 2>>
    /\ now > dm.campaigns[1].deadline
    /\ dm.campaigns[1].isActive
    /\ dm.campaigns[1].totalRaised > 0
    /\ DonateCheck(1, 1) = "DeadlinePassed"
    /\ DonateCheck(2, 1) = "ok"

\* C32: the reentrancy lock of each component is released on every exit path.
\* The ledger's lock is held exactly while one of its donate or withdrawWithLog
\* calls is in progress and the ballot's lock is never held between calls; every
\* step that ends with no operation in progress, a failed call and a rolled-back
\* donation included, leaves both locks free; so between operations no call
\* fails with Reentrant and a valid donate, withdrawWithLog or vote succeeds.
C32_LocksReleasedOnEveryExit ==
    /\ [](dm.entered <=> frame.op \in {"donate", "withdraw"})
    /\ [](~voting.entered)
    /\ [][frame'.op = "none" => ~dm'.entered /\ ~voting'.entered]_vars
    /\ [](frame.op = "none" =>
            /\ \A c \in CampaignIdInputs, amount \in AmountInputs :
                  /\ DonateCheck(c, amount) # "Reentrant"
                  /\ (amount > 0 /\ c # 0 /\ Donable(c)) => DonateCheck(c, amount) = "ok"
            /\ \A w \in WithdrawCalls :
                  /\ WithdrawCheck(w.caller, w.description, w.recipient, w.amount)
                        # "Reentrant"
                  /\ (w.caller = dm.owner /\ w.description # "" /\ w.recipient # NULL
                         /\ w.amount > 0 /\ w.amount <= dm.balance)
                       => WithdrawCheck(w.caller, w.description, w.recipient, w.amount)
                             = "ok"
            /\ \A caller \in Accounts, c \in CampaignIdInputs, t \in TokenIdInputs :
                  /\ VoteCheck(caller, c, t) # "Reentrant"
                  /\ (ownerOf(t) = caller /\ ~voting.tokenUsed[t]
                         /\ nft.donationDetails[t].campaignId = c)
                       => VoteCheck(caller, c, t) = "ok")

\* a donation with a receipt callback, a withdrawal to a contract and a vote
\* have all run to their end, and the next valid calls pass their checks
C32_Witness ==
    /\ frame.op = "none"
    /\ \E i \in DOMAIN dm.allDonations :
          dm.allDonations[i].donor = "mallory" /\ dm.allDonations[i].nftMinted
    /\ \E i \in DOMAIN dm.allExpenses : dm.allExpenses[i].recipient = "mallory"
    /\ Len(voting.voted) > 0
    /\ DonateCheck(1, 1) = "ok"
    /\ WithdrawCheck("admin", "Sewa", "alice", 1) = "ok"
    /\ \E t \in TokenIdInputs : VoteCheck(ownerOf(t), 1, t) = "ok"

\* what a call made while a ledger operation is in progress leaves alone
NestedCallsChangeNothing ==
    (frame.op \in {"donate", "withdraw"} /\ frame'.op = frame.op) => dm' = dm

\* C37 as stated: while a donate or withdrawWithLog is in progress, every
\* nested call of donate or withdrawWithLog on the ledger fails with Reentrant.
C37_NestedCallsReentrant ==
    frame.op \in {"donate", "withdraw"} =>
       /\ \A caller \in Accounts, c \in CampaignIdInputs, amount \in AmountInputs :
             CanDonate(caller, amount) => DonateCheck(c, amount) = "Reentrant"
       /\ \A w \in WithdrawCalls :
             CanWithdraw(w.caller) =>
                WithdrawCheck(w.caller, w.description, w.recipient, w.amount)
                   = "Reentrant"

\* C37 (amended): while a donate or withdrawWithLog is in progress the one
\* lock of the ledger is held and every nested call fails and changes nothing:
\* a nested donate with Reentrant, a nested withdrawWithLog with Reentrant when
\* its caller is the administrator and with Unauthorized when it is not.
C37_NestedCallsFail ==
    /\ [](frame.op \in {"donate", "withdraw"} =>
            /\ dm.entered
            /\ \A caller \in Accounts, c \in CampaignIdInputs, amount \in AmountInputs :
                  CanDonate(caller, amount) => DonateCheck(c, amount) = "Reentrant"
            /\ \A w \in WithdrawCalls :
                  CanWithdraw(w.caller) =>
                     WithdrawCheck(w.caller, w.description, w.recipient, w.amount)
                        = IF w.caller = dm.owner THEN "Reentrant" ELSE "Unauthorized")
    /\ [][NestedCallsChangeNothing]_vars

\* the administrator is a contract and is inside the transfer of its own
\* withdrawal: its nested withdrawWithLog and donate meet the lock
C37_Witness ==
    /\ frame.op = "withdraw"
    /\ frame.actor = dm.owner
    /\ dm.balance > 0
    /\ WithdrawCheck(frame.actor, "Sewa", "alice", 1) = "Reentrant"
    /\ DonateCheck(1, 0) = "Reentrant"

\* the certificates and the flagged donations correspond in the order of minting
CertificatesMatchDonations ==
    /\ Len(MintedDonations) = totalSupply
    /\ \A t \in 1 .. totalSupply :
          /\ nft.donationDetails[t].donor = MintedDonations[t].donor
          /\ nft.donationDetails[t].amount = MintedDonations[t].amount
          /\ nft.donationDetails[t].campaignId = MintedDonations[t].campaignId
          /\ MintedDonations[t].amount >= MIN_DONATION_FOR_NFT
          /\ MintedDonations[t].campaignId \in 1 .. Len(dm.campaignIds)

C35_VoteChecksInOrder ==
    /\ [](\A caller \in Accounts, c \in CampaignIdInputs, t \in TokenIdInputs :
            (AnyCaller(caller) /\ voting.tokenUsed[t]) =>
               VoteCheck(caller, c, t)
                  = IF ownerOf(t) # caller THEN "NotOwner" ELSE "AlreadyUsed")
    /\ [][(\A t \in TokenIdInputs : voting'.tokenUsed[t] = voting.tokenUsed[t])
             => voting' = voting]_vars

\* a used certificate: a stranger is told NotOwner, and its owner, naming
\* another campaign than the certificate's, is told AlreadyUsed
C35_Witness ==
    \E t \in TokenIdInputs, c \in CampaignIdInputs, a \in Accounts :
        /\ frame.op = "none"
        /\ voting.tokenUsed[t]
        /\ c # nft.donationDetails[t].campaignId
        /\ a # ownerOf(t)
        /\ VoteCheck(a, nft.donationDetails[t].campaignId, t) = "NotOwner"
        /\ VoteCheck(ownerOf(t), c, t) = "AlreadyUsed"

\* the token ids whose stored detail names the donor, in increasing order
TokensMintedWith(donor) ==
    SelectSeq([t \in 1 .. totalSupply |-> t],
              LAMBDA t : nft.donationDetails[t].donor = donor)

VoteOutcome(owner, stored, used, caller, campaignId) ==
    IF owner = NULL THEN "NotFound"
    ELSE IF owner # caller THEN "NotOwner"
    ELSE IF used THEN "AlreadyUsed"
    ELSE IF stored # campaignId THEN "CampaignMismatch"
    ELSE "ok"

\* C40: the outcome of every vote is determined by the registry's owner and
\* stored campaign id of the token and the used flag, whatever the state of
\* the ledger, so the owner of an unused certificate can vote for its campaign
\* when the campaign is inactive or past its deadline; and a step that changes
\* the ballot, other than a rollback, changes neither ledger nor registry.
C40_VoteIgnoresLedger ==
    /\ [](\A caller \in Accounts, c \in CampaignIdInputs, t \in TokenIdInputs :
            AnyCaller(caller) =>
               VoteCheck(caller, c, t)
                  = VoteOutcome(ownerOf(t), nft.donationDetails[t].campaignId,
                                voting.tokenUsed[t], caller, c))
    /\ [][(voting' # voting /\ ~Rollback) => (dm' = dm /\ nft' = nft)]_vars

\* a vote has been cast, and the owner of an unused certificate can vote for
\* its campaign, which is deactivated and past its deadline
C40_Witness ==
    \E t \in TokenIdInputs :
        LET c == nft.donationDetails[t].campaignId IN
        /\ frame.op = "none"
        /\ Len(voting.voted) > 0
        /\ ownerOf(t) # NULL
        /\ c # 0
        /\ ~voting.tokenUsed[t]
        /\ ~dm.campaigns[c].isActive
        /\ now > dm.campaigns[c].deadline
        /\ VoteCheck(ownerOf(t), c, t) = "ok"

\* C39: a step that logs an Expense changes, of the ledger, only the expense
\* log, the next expense id, totalExpensesLogged and the balance (and the lock
\* while the transfer runs), and nothing of registry or ballot: no campaign's
\* raised amount or status, no Donation, no donor statistic and not
\* totalDonationsReceived.  The campaign id of the call is only recorded: with
\* no operation in progress the administrator's call with a description, a
\* recipient and a positive amount within the ledger's balance passes the checks
\* whatever campaign it names and whatever that campaign has raised.
C39_WithdrawalTouchesOnlyExpenses ==
    /\ [][Len(dm'.allExpenses) = Len(dm.allExpenses) + 1 =>
            /\ dm' = [dm EXCEPT !.allExpenses = Append(@, NewExpense),
                                !.nextExpenseId = @ + 1,
                                !.totalExpensesLogged = @ + NewExpense.amount,
                                !.balance = @ - NewExpense.amount,
                                !.entered = dm'.entered]
            /\ NewExpense.amount <= dm.balance
            /\ nft' = nft
            /\ voting' = voting]_vars
    /\ [](\A w \in WithdrawCalls :
            (frame.op = "none" /\ w.caller = dm.owner /\ w.description # ""
                /\ w.recipient # NULL /\ w.amount > 0)
              => (WithdrawCheck(w.caller, w.description, w.recipient, w.amount) = "ok"
                     <=> w.amount <= dm.balance))

\* one Expense names campaign 0, which no campaign has as id, and another one
\* names campaign 1 with an amount larger than all that campaign has raised
C39_Witness ==
    /\ frame.op = "none"
    /\ \E i \in DOMAIN dm.allExpenses :
          dm.allExpenses[i].campaignId = 0 /\ dm.campaigns[0].id = 0
    /\ \E i \in DOMAIN dm.allExpenses :
          /\ dm.allExpenses[i].campaignId = 1
          /\ dm.campaigns[1].id = 1
          /\ dm.allExpenses[i].amount > dm.campaigns[1].totalRaised
    /\ dm.campaigns[1].totalRaised > 0
====
